---- MODULE Spec2Model ----
(***************************************************************************)
(* CsvNormalizer: the key-based dedup/merge engine (core/dedup/engine.py)  *)
(* and the streaming pipeline that drives it (core/pipeline/runner.py).    *)
(*                                                                         *)
(* A Python str is modelled as a tuple of one-character strings, so that   *)
(* strip/split/join are computed and not assumed.  A DataFrame is a        *)
(* sequence of rows; a row is a function from column names to strings.     *)
(***************************************************************************)
EXTENDS Integers, Sequences, FiniteSets, TLC

\* ------------------------------------------------------------------ bounds
MaxRows  == 3   \* rows fed to one engine over all process_chunk calls
MaxChunk == 2   \* rows in one DataFrame handed to process_chunk
BatchSize == 2  \* batch_size of export_batches

\* --------------------------------------------------------- string helpers
Range(s) == {s[i] : i \in 1..Len(s)}

\* str.strip(): whitespace removed at both ends
IsWs(c) == c = " "

RECURSIVE LStrip(_)
LStrip(s) ==
    IF s # <<>> /\ IsWs(Head(s)) THEN LStrip(Tail(s)) ELSE s

RECURSIVE RStrip(_)
RStrip(s) ==
    IF s # <<>> /\ IsWs(s[Len(s)]) THEN RStrip(SubSeq(s, 1, Len(s) - 1)) ELSE s

Strip(s) == RStrip(LStrip(s))

\* str.split(sep): always count(sep)+1 pieces, "".split(";") = [""]
RECURSIVE Split(_, _)
Split(s, sep) ==
    IF s = <<>> THEN << <<>> >>
    ELSE LET rest == Split(Tail(s), sep)
         IN  IF Head(s) = sep
             THEN << <<>> >> \o rest
             ELSE << <<Head(s)>> \o Head(rest) >> \o Tail(rest)

\* sep.join(parts)
RECURSIVE Join(_, _)
Join(parts, sep) ==
    IF parts = <<>> THEN <<>>
    ELSE IF Len(parts) = 1 THEN parts[1]
    ELSE parts[1] \o <<sep>> \o Join(Tail(parts), sep)

\* str(n) for a non-negative integer
Digit(d) == <<"0", "1", "2", "3", "4", "5", "6", "7", "8", "9">>[d + 1]

RECURSIVE Decimal(_)
Decimal(n) ==
    IF n < 10 THEN <<Digit(n)>> ELSE Decimal(n \div 10) \o <<Digit(n % 10)>>

\* the literal "__EMPTY__#" of the synthetic key f"__EMPTY__#{n}"
EmptyPrefix == <<"_", "_", "E", "M", "P", "T", "Y", "_", "_", "#">>

\* ------------------------------------------------------- _merge_semicolon
\* variant: the value of a later duplicate never reaches a non-empty record
_merge_semicolon_keep_first(existing, new) ==
    IF Strip(existing) # <<>> THEN Strip(existing) ELSE Strip(new)

\* variant: the membership test is left out, new is always appended
_merge_semicolon_always_append(existing, new) ==
    LET ex == Strip(existing)
        nv == Strip(new)
    IN  IF nv = <<>> /\ ex # <<>> THEN ex
        ELSE IF ex = <<>> THEN nv
        ELSE Join(SelectSeq(Append(Split(ex, ";"), nv), LAMBDA p : p # <<>>), ";")

_merge_semicolon(existing, new) ==
    LET ex == Strip(existing)
        nv == Strip(new)
    IN  IF nv = <<>> /\ ex # <<>> THEN ex
        ELSE IF ex = <<>> THEN nv
        ELSE LET parts  == Split(ex, ";")
                 parts2 == IF nv # <<>> /\ nv \notin Range(parts)
                           THEN Append(parts, nv) ELSE parts
                 parts3 == SelectSeq(parts2, LAMBDA p : p # <<>>)
             IN  Join(parts3, ";")

\* ------------------------------------------------------- DedupMergeEngine
\* row.get(c, ""): a column absent from the row reads as the empty string
Get(row, c) == IF c \in DOMAIN row THEN row[c] ELSE <<>>

\* __init__: the key column and unknown columns are dropped from merge_columns
DedupMergeEngine(key_column, all_columns, merge_columns, ignore_empty) ==
    [ key_column    |-> key_column,
      all_columns   |-> all_columns,
      merge_columns |-> SelectSeq(merge_columns,
                           LAMBDA c : c \in Range(all_columns) /\ c # key_column),
      ignore_empty  |-> ignore_empty,
      order_counter |-> 0,
      removed       |-> 0,
      agg           |-> {},       \* table agg: records [key, order, cols]
      log           |-> <<>> ]    \* history: one entry per processed row

\* variant: the record takes the counter before it is advanced
_insert_row_counter_after(e, key, row) ==
    [e EXCEPT !.order_counter = @ + 1,
              !.agg = @ \cup { [ key   |-> key,
                                 order |-> e.order_counter,
                                 cols  |-> [c \in Range(e.all_columns) |-> Get(row, c)] ] }]

\* INSERT INTO agg: the counter is advanced first, all columns are stored
_insert_row(e, key, row) ==
    [e EXCEPT !.order_counter = @ + 1,
              !.agg = @ \cup { [ key   |-> key,
                                 order |-> e.order_counter + 1,
                                 cols  |-> [c \in Range(e.all_columns) |-> Get(row, c)] ] }]

\* SELECT ... WHERE __key__=?: {} for None, {cols} for a hit
_fetch_row(e, key) == { r.cols : r \in {x \in e.agg : x.key = key} }

\* UPDATE agg SET ... WHERE __key__=?: only the columns named in updated
_update_row(e, key, updated) ==
    IF DOMAIN updated = {} THEN e
    ELSE [e EXCEPT !.agg =
            { IF r.key = key
              THEN [r EXCEPT !.cols = [c \in DOMAIN r.cols |->
                                         IF c \in DOMAIN updated THEN updated[c] ELSE r.cols[c]]]
              ELSE r : r \in @ }]

\* variant: a duplicate merges every column, not only the merge columns
MergeTargetsAll(e) == Range(e.all_columns)

\* for col in self.merge_columns
MergeTargets(e) == Range(e.merge_columns)

\* body of the row loop of process_chunk
process_row(e, row) ==
    LET key_val  == IF e.key_column \notin DOMAIN row THEN <<>> ELSE row[e.key_column]
        isEmpty  == e.ignore_empty /\ key_val = <<>>
        key      == IF isEmpty THEN EmptyPrefix \o Decimal(e.order_counter + 1) ELSE key_val
        existing == _fetch_row(e, key)
        entry(hit) == [row |-> row, key |-> key, hit |-> hit]
    IN  IF existing = {}
        THEN [_insert_row(e, key, row) EXCEPT !.log = Append(@, entry(FALSE))]
        ELSE LET ex == CHOOSE x \in existing : TRUE
                 merged(col) == _merge_semicolon(Get(ex, col), Get(row, col))
                 updates == [col \in {c \in MergeTargets(e) : merged(c) # Get(ex, c)}
                               |-> merged(col)]
                 e1 == _update_row(e, key, updates)
             IN  [e1 EXCEPT !.removed = IF ~isEmpty THEN @ + 1 ELSE @,
                            !.log = Append(@, entry(TRUE))]

RECURSIVE process_chunk(_, _)
process_chunk(e, df) ==
    IF df = <<>> THEN e ELSE process_chunk(process_row(e, Head(df)), Tail(df))

\* variant: ORDER BY __order__ DESC
RECURSIVE OrderByOrderDesc(_)
OrderByOrderDesc(recs) ==
    IF recs = {} THEN <<>>
    ELSE LET r == CHOOSE x \in recs : \A y \in recs : x.order >= y.order
         IN  <<r>> \o OrderByOrderDesc(recs \ {r})

\* SELECT ... ORDER BY __order__ ASC
RECURSIVE OrderByOrder(_)
OrderByOrder(recs) ==
    IF recs = {} THEN <<>>
    ELSE LET r == CHOOSE x \in recs : \A y \in recs : x.order <= y.order
         IN  <<r>> \o OrderByOrder(recs \ {r})

\* variant: the buffer is not cleared after a page has been yielded
RECURSIVE PageLoopNoClear(_, _, _)
PageLoopNoClear(cur, rows, batch_size) ==
    IF cur = <<>> THEN (IF rows # <<>> THEN <<rows>> ELSE <<>>)
    ELSE LET rows1 == Append(rows, Head(cur).cols)
         IN  IF Len(rows1) >= batch_size
             THEN <<rows1>> \o PageLoopNoClear(Tail(cur), rows1, batch_size)
             ELSE PageLoopNoClear(Tail(cur), rows1, batch_size)

\* the paging loop of export_batches over the cursor cur with buffer rows
RECURSIVE PageLoop(_, _, _)
PageLoop(cur, rows, batch_size) ==
    IF cur = <<>> THEN (IF rows # <<>> THEN <<rows>> ELSE <<>>)
    ELSE LET rows1 == Append(rows, Head(cur).cols)
         IN  IF Len(rows1) >= batch_size
             THEN <<rows1>> \o PageLoop(Tail(cur), <<>>, batch_size)
             ELSE PageLoop(Tail(cur), rows1, batch_size)

export_batches(e, batch_size) == PageLoop(OrderByOrder(e.agg), <<>>, batch_size)

\* ------------------------------------------------ engine driven directly
VARIABLES engine, pages, pc, engine2, pages2

\* _merge_semicolon called on its own: the two arguments, the result
VARIABLES mEx, mNew, mOut, mPc

\* one set of rows with the same key fed to two engines in two orders
VARIABLES oRows, oPerm, engA, engB

\* run_pipeline: its arguments, the input file, the batches the reader has
\* still to yield, the local state of the run, and where the run stands
VARIABLES cfg, input, reader, run, phase

\* min_length_clear called on its own: the cell, the threshold, the result
VARIABLES lVal, lMin, lOut, lPc

\* OneFilledRowFilter on its own: the filter, the batch of the last call of
\* apply, the rows it kept, the number of calls
VARIABLES fRf, fDf, fOut, fCalls

\* the simple DedupEngine on its own: the engine, the batches handed to
\* filter_chunk and the batches it returned
VARIABLES sEngine, sFed, sRet

\* the examples of one column: the accumulated list, the rows read so far,
\* the candidates of the last batch, the number of batches
VARIABLES xExamples, xRows, xBatch, xCalls

engineVars == <<engine, pages, pc, engine2, pages2>>
mergeVars  == <<mEx, mNew, mOut, mPc>>
orderVars  == <<oRows, oPerm, engA, engB>>
pipeVars   == <<cfg, input, reader, run, phase>>
lenVars    == <<lVal, lMin, lOut, lPc>>
filterVars == <<fRf, fDf, fOut, fCalls>>
simpleVars == <<sEngine, sFed, sRet>>
exampleVars == <<xExamples, xRows, xBatch, xCalls>>
vars == <<engineVars, mergeVars, orderVars, pipeVars, lenVars, filterVars,
          simpleVars, exampleVars>>

KeyColumn    == "id"
AllColumns   == <<"id", "email", "name">>
MergeColumns == <<"email", "id", "phone">>

KeyVals   == { <<>>, <<"1">>, <<"2">>, EmptyPrefix \o <<"1">> }
EmailVals == { <<>>, <<"a">>, <<" ", "b">>, <<";", "a">> }
\* the name column carries the ordinal of the row in the stream
NameOf(n) == <<"n">> \o Decimal(n)

RowsAt(n) == { [id |-> k, email |-> v, name |-> NameOf(n)] : k \in KeyVals, v \in EmailVals }

RECURSIVE ChunksFrom(_, _)
ChunksFrom(n, len) ==
    IF len = 0 THEN { <<>> }
    ELSE { <<r>> \o rest : r \in RowsAt(n), rest \in ChunksFrom(n + 1, len - 1) }

NoEngine == DedupMergeEngine(KeyColumn, <<>>, <<>>, TRUE)

EngineIdle ==
    /\ engine = NoEngine
    /\ pages = <<>>
    /\ pc = "idle"
    /\ engine2 = NoEngine
    /\ pages2 = <<>>

MergeIdle ==
    /\ mEx = <<>>
    /\ mNew = <<>>
    /\ mOut = <<>>
    /\ mPc = "idle"

OrderIdle ==
    /\ oRows = <<>>
    /\ oPerm = <<>>
    /\ engA = NoEngine
    /\ engB = NoEngine

PipeIdle ==
    /\ cfg = <<>>
    /\ input = <<>>
    /\ reader = <<>>
    /\ run = <<>>
    /\ phase = "idle"

LenIdle ==
    /\ lVal = <<>>
    /\ lMin = 0
    /\ lOut = <<>>
    /\ lPc = "idle"

FilterIdle ==
    /\ fRf = [subset |-> <<>>, removed |-> 0]
    /\ fDf = <<>>
    /\ fOut = <<>>
    /\ fCalls = 0

SimpleIdle ==
    /\ sEngine = [subset |-> <<>>, ignore_empty_in_subset |-> TRUE, seen |-> {}, removed |-> 0]
    /\ sFed = <<>>
    /\ sRet = <<>>

ExamplesIdle ==
    /\ xExamples = <<>>
    /\ xRows = 0
    /\ xBatch = [norm |-> 0, cleared |-> 0]
    /\ xCalls = 0

EngineInit ==
    /\ \E ie \in BOOLEAN :
          engine = DedupMergeEngine(KeyColumn, AllColumns, MergeColumns, ie)
    /\ pages = <<>>
    /\ pc = "feeding"
    /\ engine2 = NoEngine
    /\ pages2 = <<>>

Init == EngineInit /\ MergeIdle /\ OrderIdle /\ PipeIdle /\ LenIdle /\ FilterIdle /\ SimpleIdle /\ ExamplesIdle

ProcessChunk ==
    /\ pc = "feeding"
    /\ \E len \in 0..MaxChunk :
          /\ Len(engine.log) + len <= MaxRows
          /\ \E df \in ChunksFrom(Len(engine.log) + 1, len) :
                engine' = process_chunk(engine, df)
    /\ UNCHANGED <<pages, pc, engine2, pages2, mergeVars, orderVars, pipeVars, lenVars, filterVars,
                 simpleVars, exampleVars>>

ExportBatches ==
    /\ pc = "feeding"
    /\ pages' = export_batches(engine, BatchSize)
    /\ pc' = "exported"
    /\ UNCHANGED <<engine, engine2, pages2, mergeVars, orderVars, pipeVars, lenVars, filterVars,
                 simpleVars, exampleVars>>

\* the exported pages are fed, page by page, to a fresh engine with the same
\* configuration, which is then exported in turn
RECURSIVE FeedAll(_, _)
FeedAll(e, dfs) ==
    IF dfs = <<>> THEN e ELSE FeedAll(process_chunk(e, Head(dfs)), Tail(dfs))

Rerun ==
    /\ pc = "exported"
    /\ LET fresh == DedupMergeEngine(engine.key_column, engine.all_columns,
                                     MergeColumns, engine.ignore_empty)
           e2    == FeedAll(fresh, pages)
       IN  /\ engine2' = e2
           /\ pages2' = export_batches(e2, BatchSize)
    /\ pc' = "rerun"
    /\ UNCHANGED <<engine, pages, mergeVars, orderVars, pipeVars, lenVars, filterVars,
                 simpleVars, exampleVars>>

Next == ProcessChunk \/ ExportBatches \/ Rerun

Spec == Init /\ [][Next]_vars

\* ------------------------------------------- _merge_semicolon on its own
MaxStrLen == 3
Alphabet  == { "a", "b", ";", " " }
Strings   == UNION { [1..n -> Alphabet] : n \in 0..MaxStrLen }

MergeInit ==
    /\ mEx \in Strings
    /\ mNew \in Strings
    /\ mOut = <<>>
    /\ mPc = "call"

MergeCall ==
    /\ mPc = "call"
    /\ mOut' = _merge_semicolon(mEx, mNew)
    /\ mPc' = "done"
    /\ UNCHANGED <<mEx, mNew, engineVars, orderVars, pipeVars, lenVars, filterVars,
                 simpleVars, exampleVars>>

InitMerge == MergeInit /\ EngineIdle /\ OrderIdle /\ PipeIdle /\ LenIdle /\ FilterIdle /\ SimpleIdle /\ ExamplesIdle
NextMerge == MergeCall
SpecMerge == InitMerge /\ [][NextMerge]_vars

\* --------------------------------- one key, the same rows, two orders
MaxSameKey  == 3
OrderEmails == { <<>>, <<"a">>, <<"b">>, <<";", " ", "a">> }

SameKeyRows(n) ==
    { [i \in 1..n |-> [id |-> <<"1">>, email |-> f[i], name |-> NameOf(i)]] :
         f \in [1..n -> OrderEmails] }

Perms(n) == { f \in [1..n -> 1..n] : \A i, j \in 1..n : i # j => f[i] # f[j] }

OrderInit ==
    /\ \E n \in 1..MaxSameKey :
          /\ oRows \in SameKeyRows(n)
          /\ oPerm \in Perms(n)
    /\ engA = DedupMergeEngine(KeyColumn, AllColumns, MergeColumns, TRUE)
    /\ engB = DedupMergeEngine(KeyColumn, AllColumns, MergeColumns, TRUE)

\* engine A takes the rows in the given order, one process_chunk per row
FeedA ==
    /\ Len(engA.log) < Len(oRows)
    /\ engA' = process_chunk(engA, << oRows[Len(engA.log) + 1] >>)
    /\ UNCHANGED <<oRows, oPerm, engB, engineVars, mergeVars, pipeVars, lenVars, filterVars,
                 simpleVars, exampleVars>>

\* engine B takes them in the permuted order
FeedB ==
    /\ Len(engB.log) < Len(oRows)
    /\ engB' = process_chunk(engB, << oRows[oPerm[Len(engB.log) + 1]] >>)
    /\ UNCHANGED <<oRows, oPerm, engA, engineVars, mergeVars, pipeVars, lenVars, filterVars,
                 simpleVars, exampleVars>>

InitOrder == OrderInit /\ EngineIdle /\ MergeIdle /\ PipeIdle /\ LenIdle /\ FilterIdle /\ SimpleIdle /\ ExamplesIdle
NextOrder == FeedA \/ FeedB
SpecOrder == InitOrder /\ [][NextOrder]_vars

\* ------------------------------------------------- rules of the profile
\* str.lower() on the characters in use: ASCII letters, and the letters the
\* decoders below can produce (U+0413 -> U+0433, U+00D8 -> U+00F8)
UpperChars == << "A", "B", "C", "D", "E", "F", "G", "H", "I", "J", "K", "L", "M",
                 "N", "O", "P", "Q", "R", "S", "T", "U", "V", "W", "X", "Y", "Z",
                 "U+0413", "U+00D8" >>
LowerChars == << "a", "b", "c", "d", "e", "f", "g", "h", "i", "j", "k", "l", "m",
                 "n", "o", "p", "q", "r", "s", "t", "u", "v", "w", "x", "y", "z",
                 "U+0433", "U+00F8" >>

Lower(c) ==
    IF \E k \in 1..Len(UpperChars) : UpperChars[k] = c
    THEN LowerChars[CHOOSE k \in 1..Len(UpperChars) : UpperChars[k] = c]
    ELSE c

strip_whitespace(v) == Strip(v)

to_lower(v) == [i \in 1..Len(v) |-> Lower(v[i])]

\* the zero-width class (U+200B..U+200D, U+FEFF) and the control class
\* (U+0000..U+001F, U+007F), on the characters in use
ZeroWidthChars == { "U+200B", "U+200C", "U+200D", "U+FEFF" }
ControlChars   == { "U+0000", "U+0001", "U+001F", "U+007F" }

\* _sanitize_text: NFC leaves the characters in use as they are
_sanitize_text(s) == SelectSeq(s, LAMBDA c : c \notin ZeroWidthChars \cup ControlChars)

\* the CJK, kana and hangul ranges of the first test, on the characters in use
CjkChars == { "U+4E2D", "U+9A69", "U+9A58", "U+9629", "U+9618" }

AsciiLower == { LowerChars[k] : k \in 1..26 }

\* str.split() without argument: the maximal runs of non-whitespace
RECURSIVE SplitWs(_)
SplitWs(s) ==
    LET t == LStrip(s)
        n == IF \E i \in 1..Len(t) : IsWs(t[i])
             THEN (CHOOSE i \in 1..Len(t) : IsWs(t[i]) /\ \A j \in 1..(i - 1) : ~IsWs(t[j])) - 1
             ELSE Len(t)
    IN  IF t = <<>> THEN <<>>
        ELSE <<SubSeq(t, 1, n)>> \o SplitWs(SubSeq(t, n + 1, Len(t)))

common_single ==
    { <<"l", "i">>, <<"w", "u">>, <<"x", "u">>, <<"y", "u">>, <<"s", "u">>,
      <<"h", "u">>, <<"h", "o">>, <<"l", "u">>, <<"l", "o">>, <<"n", "g">>,
      <<"d", "o">>, <<"t", "o">>, <<"k", "o">>, <<"m", "a">>, <<"a", "n">>,
      <<"b", "o">>, <<"x", "i">>, <<"q", "i">>, <<"h", "e">>, <<"l", "e">> }

_looks_like_romanized_east_asian_name(x) ==
    LET y0    == to_lower(x)
        y     == [i \in 1..Len(y0) |-> IF y0[i] \in { "-", "'" } THEN " " ELSE y0[i]]
        parts == SplitWs(y)
        short(p) == Len(p) \in 1..4 /\ \A i \in 1..Len(p) : p[i] \in AsciiLower
    IN  \/ \E i \in 1..Len(x) : x[i] \in CjkChars
        \/ /\ Len(parts) \in 1..3
           /\ \A k \in 1..Len(parts) : short(parts[k])
           /\ \/ Len(parts) >= 2 /\ \A k \in 1..Len(parts) : Len(parts[k]) \in 1..3
              \/ Len(parts) = 1 /\ parts[1] \in common_single

\* min_length_clear._apply, for one cell
min_length_clear(v, min_len) ==
    LET x == Strip(_sanitize_text(v))
    IN  IF x = <<>> THEN x
        ELSE IF Len(x) < min_len
             THEN IF _looks_like_romanized_east_asian_name(x) THEN v ELSE <<>>
        ELSE v

\* sanitize_invisible, for one cell
sanitize_invisible(v) == _sanitize_text(v)

\* a rule step of the profile: is it a mapping, and which keys it has
Step(name) == [is_dict |-> TRUE, keys |-> <<name>>]

\* the names of _PRIMITIVES and _ADVANCED in use
RuleNames == { "strip_whitespace", "sanitize_invisible", "to_lower", "min_length_clear" }

\* registry.get(name) applied to one cell (advanced rules with their defaults)
registry_get(name, v) ==
    CASE name = "strip_whitespace"   -> strip_whitespace(v)
      [] name = "sanitize_invisible" -> sanitize_invisible(v)
      [] name = "to_lower"           -> to_lower(v)
      [] name = "min_length_clear"   -> min_length_clear(v, 3)

\* the exception the rule chain raises before it has run through, "" if none:
\* ValueError for a step that is not a one-key mapping, KeyError from
\* registry.get for a name that is not registered
RECURSIVE rule_error(_)
rule_error(rules) ==
    IF rules = <<>> THEN ""
    ELSE IF ~Head(rules).is_dict \/ Len(Head(rules).keys) # 1 THEN "ValueError"
    ELSE IF Head(rules).keys[1] \notin RuleNames THEN "KeyError"
    ELSE rule_error(Tail(rules))

\* for step in rules: series = fn(series, **params)
RECURSIVE apply_rules(_, _)
apply_rules(rules, v) ==
    IF rules = <<>> THEN v
    ELSE apply_rules(Tail(rules), registry_get(Head(rules).keys[1], v))

\* variant: the snapshot is taken without trimming
_series_as_stripped_raw(v) == v

\* _series_as_stripped, for one cell
_series_as_stripped(v) == Strip(v)

\* -------------------------------------------------- OneFilledRowFilter
OneFilledRowFilter(subset) == [subset |-> subset, removed |-> 0]

\* variant: rows with exactly one filled cell are kept as well
OneFilledRowFilter_apply_keep_one(rf, columns, df) ==
    LET present_cols == SelectSeq(rf.subset, LAMBDA c : c \in Range(columns))
        non_empty_counts(row) ==
            Cardinality({ k \in 1..Len(present_cols) : row[present_cols[k]] # <<>> })
        kept == SelectSeq(df, LAMBDA row : non_empty_counts(row) >= 1)
    IN  IF rf.subset = <<>> \/ present_cols = <<>>
        THEN [df |-> df, rf |-> rf]
        ELSE [df |-> kept,
              rf |-> [rf EXCEPT !.removed = @ + (Len(df) - Len(kept))]]

\* apply: the kept rows, and the filter with its cumulative stats.removed
OneFilledRowFilter_apply(rf, columns, df) ==
    LET present_cols == SelectSeq(rf.subset, LAMBDA c : c \in Range(columns))
        non_empty_counts(row) ==
            Cardinality({ k \in 1..Len(present_cols) : row[present_cols[k]] # <<>> })
        kept == SelectSeq(df, LAMBDA row : non_empty_counts(row) > 1)
    IN  IF rf.subset = <<>> \/ present_cols = <<>>
        THEN [df |-> df, rf |-> rf]
        ELSE [df |-> kept,
              rf |-> [rf EXCEPT !.removed = @ + (Len(df) - Len(kept))]]

\* ------------------------------------------------------------ decoding
\* A cell of the input file is a tuple of bytes: an ASCII byte is written as
\* its character, a byte above 0x7F as its two hex digits.  A decoder yields
\* <<text>>, or <<>> when it raises UnicodeDecodeError.
HighBytes == { "C3", "E9", "A9", "98" }
ContBytes == { "A9", "98" }          \* 0x80..0xBF

Cons(c, rest) == IF rest = <<>> THEN <<>> ELSE << <<c>> \o rest[1] >>

\* the code point of a two-byte sequence C3 xx and of a three-byte E9 xx yy
Utf8Char2(b2) == IF b2 = "A9" THEN "U+00E9" ELSE "U+00D8"
Utf8Char3(b2, b3) ==
    CASE b2 = "A9" /\ b3 = "A9" -> "U+9A69"
      [] b2 = "A9" /\ b3 = "98" -> "U+9A58"
      [] b2 = "98" /\ b3 = "A9" -> "U+9629"
      [] b2 = "98" /\ b3 = "98" -> "U+9618"

RECURSIVE Utf8Decode(_)
Utf8Decode(bs) ==
    IF bs = <<>> THEN << <<>> >>
    ELSE IF Head(bs) \notin HighBytes THEN Cons(Head(bs), Utf8Decode(Tail(bs)))
    ELSE IF Head(bs) = "C3" /\ Len(bs) >= 2 /\ bs[2] \in ContBytes
         THEN Cons(Utf8Char2(bs[2]), Utf8Decode(SubSeq(bs, 3, Len(bs))))
    ELSE IF Head(bs) = "E9" /\ Len(bs) >= 3 /\ bs[2] \in ContBytes /\ bs[3] \in ContBytes
         THEN Cons(Utf8Char3(bs[2], bs[3]), Utf8Decode(SubSeq(bs, 4, Len(bs))))
    ELSE <<>>

\* cp1251 maps every byte but 0x98, which it leaves undefined
Cp1251Char(b) ==
    CASE b = "C3" -> "U+0413"
      [] b = "E9" -> "U+0439"
      [] b = "A9" -> "U+00A9"
      [] OTHER    -> b

RECURSIVE Cp1251Decode(_)
Cp1251Decode(bs) ==
    IF bs = <<>> THEN << <<>> >>
    ELSE IF Head(bs) = "98" THEN <<>>
    ELSE Cons(Cp1251Char(Head(bs)), Cp1251Decode(Tail(bs)))

Decode(enc, bs) == IF enc = "utf-8" THEN Utf8Decode(bs) ELSE Cp1251Decode(bs)

Decodes(enc, row) == \A c \in DOMAIN row : Decode(enc, row[c]) # <<>>

DecodeRow(enc, row) == [c \in DOMAIN row |-> Decode(enc, row[c])[1]]

\* ----------------------------------------------------------- reader, writer
\* read_csv_in_chunks(...): the generator before its first step; delivered is
\* the history of the batches it has yielded, each with the encoding in use
read_csv_in_chunks(delimiter, encoding, chunksize) ==
    [ sep       |-> delimiter,
      chunksize |-> chunksize,
      encodings_to_try |-> IF encoding = "auto" THEN <<"utf-8", "cp1251">>
                           ELSE <<encoding>>,
      at        |-> 1,           \* the candidate of the running attempt
      pos       |-> 0,           \* rows yielded in the running attempt
      fresh     |-> TRUE,        \* no batch yielded in the running attempt
      delivered |-> <<>> ]

\* one step of the generator, up to its next yield, its return or its raise:
\* the set of outcomes.  pd.read_csv decodes as it reads ahead, so the
\* attempt fails no later than at the batch holding the first undecodable
\* row and possibly at an earlier one; for a file without data rows the
\* library yields one empty batch or none.
RECURSIVE read_csv_in_chunks_next(_, _)
read_csv_in_chunks_next(rd, file) ==
    LET enc == rd.encodings_to_try[rd.at]
        n   == Len(file)
        hi  == IF rd.pos + rd.chunksize < n THEN rd.pos + rd.chunksize ELSE n
        bad(i) == ~Decodes(enc, file[i])
        slice == [i \in 1..(hi - rd.pos) |-> DecodeRow(enc, file[rd.pos + i])]
        yield(df) == [kind |-> "yield", chunk |-> df,
                      rd |-> [rd EXCEPT !.pos = hi, !.fresh = FALSE,
                                        !.delivered = Append(@, [enc |-> enc, rows |-> df])]]
        return == [kind |-> "return", chunk |-> <<>>, rd |-> rd]
        raise  == [kind |-> "raise", chunk |-> <<>>, rd |-> rd]
        failed == IF rd.at < Len(rd.encodings_to_try)
                  THEN read_csv_in_chunks_next(
                          [rd EXCEPT !.at = @ + 1, !.pos = 0, !.fresh = TRUE], file)
                  ELSE { raise }
    IN  IF rd.pos = n
        THEN IF n = 0 /\ rd.fresh THEN { yield(<<>>), return } ELSE { return }
        ELSE IF \E i \in (rd.pos + 1)..hi : bad(i) THEN failed
        ELSE IF \E i \in (hi + 1)..n : bad(i) THEN failed \cup { yield(slice) }
        ELSE { yield(slice) }

\* CsvIncrementalWriter.write_chunk: one append to the output file; to_csv is
\* called without sep and so writes its default separator
write_chunk(out, df, header) ==
    Append(out, [header |-> header, rows |-> df, sep |-> ","])

\* ------------------------------------------------------------ run_pipeline
MaxFileRows  == 3
MaxChunkSize == 2

FileColumns     == <<"id", "email", "name">>
ColumnsCfg      == << [col   |-> "email",
                       rules |-> <<Step("strip_whitespace"), Step("to_lower")>>] >>
RowFilterSubset == <<"email", "name", "zip">>
\* batch_size of the export (100_000 in the source), scaled to the files
ExportBatchSize == 2

PipeRows ==
    { [id |-> k, email |-> v, name |-> n] :
         k \in { <<>>, <<"1">> }, v \in { <<>>, <<"A">>, <<" ">> }, n \in { <<>>, <<"x">> } }

Files == UNION { [1..n -> PipeRows] : n \in 0..MaxFileRows }

\* delimiter_override or cfg_global.get("delimiter", ","); "" stands for an
\* override that is None or empty and for a profile without the key
Delimiter(c) ==
    IF c.delimiter_override # "" THEN c.delimiter_override
    ELSE IF c.profile.delimiter # "" THEN c.profile.delimiter
    ELSE ","

\* encoding_override or cfg_global.get("encoding", "auto")
Encoding(c) ==
    IF c.encoding_override # "" THEN c.encoding_override
    ELSE IF c.profile.encoding # "" THEN c.profile.encoding
    ELSE "auto"

\* summary["dedup"]["enabled"]; key_col is "" when no dedup_subset is given
DedupOn(c) == c.dedup_enabled /\ c.key_col # ""

\* progress_cb(info): the call is recorded; the callback raises when it is
\* its cb_raises_at-th invocation (0: it never raises)
progress_call(r, c, ph, rows_done, percent) ==
    LET r1 == [r EXCEPT !.progress =
                  Append(@, [phase |-> ph, rows_done |-> rows_done,
                             rows_est |-> c.rows_total_estimate, percent |-> percent])]
    IN  IF ~c.progress_cb THEN r
        ELSE IF Len(r1.progress) = c.cb_raises_at
             THEN [r1 EXCEPT !.error = "CallbackError"]
        ELSE r1

\* the callback of the start phase; percent is <<p>>, or <<>> for None
start(r, c) ==
    progress_call(r, c, "start", 0, IF c.rows_total_estimate # 0 THEN <<0>> ELSE <<>>)

\* variant: a cleared cell is counted as cleared only, not as changed
column_stats_cleared_apart(before, after) ==
    LET idx == 1..Len(before)
    IN  [ initial_empty |-> Cardinality({ i \in idx : before[i] = <<>> }),
          changed       |-> Cardinality({ i \in idx : before[i] # after[i] /\ after[i] # <<>> }),
          cleared       |-> Cardinality({ i \in idx : before[i] # <<>> /\ after[i] = <<>> }) ]

\* the counters of one column in one batch, from the trimmed snapshots
column_stats(before, after) ==
    LET idx == 1..Len(before)
    IN  [ initial_empty |-> Cardinality({ i \in idx : before[i] = <<>> }),
          changed       |-> Cardinality({ i \in idx : before[i] # after[i] }),
          cleared       |-> Cardinality({ i \in idx : before[i] # <<>> /\ after[i] = <<>> }) ]

\* The totals of a column grow by the counts of the batch.
add_stats(old, now) ==
    [changed       |-> old.changed + now.changed,
     cleared       |-> old.cleared + now.cleared,
     initial_empty |-> old.initial_empty + now.initial_empty]

\* variant: the statistics are taken but the series is not written back
RECURSIVE rules_step_stats_only(_, _, _, _, _)
rules_step_stats_only(columns_cfg, columns, cols_stats, chunk, c) ==
    IF columns_cfg = <<>> THEN [cols_stats |-> cols_stats, chunk |-> chunk, error |-> ""]
    ELSE LET col_name == Head(columns_cfg).col
             rules    == Head(columns_cfg).rules
             idx      == 1..Len(chunk)
             apply_min_length == c.min_length_enabled /\ c.min_length_columns # {}
             cell(v)  == IF apply_min_length /\ col_name \in c.min_length_columns
                         THEN min_length_clear(apply_rules(rules, v), c.min_length_value)
                         ELSE apply_rules(rules, v)
             before   == [i \in idx |-> _series_as_stripped(chunk[i][col_name])]
             chunk1   == [i \in idx |-> [chunk[i] EXCEPT ![col_name] = cell(@)]]
             after    == [i \in idx |-> _series_as_stripped(chunk1[i][col_name])]
             now      == column_stats(before, after)
             old      == IF col_name \in DOMAIN cols_stats THEN cols_stats[col_name]
                         ELSE [changed |-> 0, cleared |-> 0, initial_empty |-> 0]
             stats1   == [k \in DOMAIN cols_stats \cup {col_name} |->
                            IF k = col_name THEN add_stats(old, now) ELSE cols_stats[k]]
         IN  IF col_name \notin Range(columns)
             THEN rules_step_stats_only(Tail(columns_cfg), columns, cols_stats, chunk, c)
             ELSE IF rule_error(rules) # ""
             THEN [cols_stats |-> cols_stats, chunk |-> chunk, error |-> rule_error(rules)]
             ELSE rules_step_stats_only(Tail(columns_cfg), columns, stats1, chunk, c)

\* steps 1 and 2 of the loop body: the rule chain of every profile column
\* present in the batch, the optional min_length_clear pass, and the
\* changed/cleared/initial_empty counters; error names the exception raised
RECURSIVE rules_step(_, _, _, _, _)
rules_step(columns_cfg, columns, cols_stats, chunk, c) ==
    IF columns_cfg = <<>> THEN [cols_stats |-> cols_stats, chunk |-> chunk, error |-> ""]
    ELSE LET col_name == Head(columns_cfg).col
             rules    == Head(columns_cfg).rules
             idx      == 1..Len(chunk)
             apply_min_length == c.min_length_enabled /\ c.min_length_columns # {}
             cell(v)  == IF apply_min_length /\ col_name \in c.min_length_columns
                         THEN min_length_clear(apply_rules(rules, v), c.min_length_value)
                         ELSE apply_rules(rules, v)
             before   == [i \in idx |-> _series_as_stripped(chunk[i][col_name])]
             chunk1   == [i \in idx |-> [chunk[i] EXCEPT ![col_name] = cell(@)]]
             after    == [i \in idx |-> _series_as_stripped(chunk1[i][col_name])]
             now      == column_stats(before, after)
             old      == IF col_name \in DOMAIN cols_stats THEN cols_stats[col_name]
                         ELSE [changed |-> 0, cleared |-> 0, initial_empty |-> 0]
             stats1   == [k \in DOMAIN cols_stats \cup {col_name} |->
                            IF k = col_name THEN add_stats(old, now) ELSE cols_stats[k]]
         IN  IF col_name \notin Range(columns)
             THEN rules_step(Tail(columns_cfg), columns, cols_stats, chunk, c)
             ELSE IF rule_error(rules) # ""
             THEN [cols_stats |-> cols_stats, chunk |-> chunk, error |-> rule_error(rules)]
             ELSE rules_step(Tail(columns_cfg), columns, stats1, chunk1, c)

\* variant: the filter's cumulative counter is added instead of removed_now
row_filter_step_cumulative(r, columns, chunk) ==
    IF r.row_filter = <<>> THEN [run |-> r, chunk |-> chunk]
    ELSE LET res == OneFilledRowFilter_apply(r.row_filter[1], columns, chunk)
         IN  [run   |-> [r EXCEPT !.row_filter = <<res.rf>>,
                                  !.rf_removed = @ + res.rf.removed],
              chunk |-> res.df]

\* step 3 of the loop body: the row filter and its removed counter
row_filter_step(r, columns, chunk) ==
    IF r.row_filter = <<>> THEN [run |-> r, chunk |-> chunk]
    ELSE LET before_len  == Len(chunk)
             res         == OneFilledRowFilter_apply(r.row_filter[1], columns, chunk)
             removed_now == before_len - Len(res.df)
         IN  [run   |-> [r EXCEPT !.row_filter = <<res.rf>>,
                                  !.rf_removed = @ + removed_now],
              chunk |-> res.df]

\* variant: every batch is merged into an engine of its own
dedup_or_write_step_fresh_engine(r, c, columns, chunk) ==
    IF DedupOn(c)
    THEN LET deduper == DedupMergeEngine(c.key_col, columns, c.merge_cols, TRUE)
         IN  IF c.store_fault = "process_chunk"
             THEN [r EXCEPT !.deduper = <<deduper>>, !.error = "StoreError"]
             ELSE [r EXCEPT !.deduper = << process_chunk(deduper, chunk) >>]
    ELSE [r EXCEPT !.out = write_chunk(@, chunk, ~r.first_chunk_written),
                   !.first_chunk_written = TRUE]

\* step 4 of the loop body: merge into the dedup engine, or write; the store
\* of the engine is a SQLite file, whose statements raise when the store fails
dedup_or_write_step(r, c, columns, chunk) ==
    IF DedupOn(c)
    THEN LET deduper == IF r.deduper = <<>>
                        THEN DedupMergeEngine(c.key_col, columns, c.merge_cols, TRUE)
                        ELSE r.deduper[1]
         IN  IF c.store_fault = "process_chunk"
             THEN [r EXCEPT !.deduper = <<deduper>>, !.error = "StoreError"]
             ELSE [r EXCEPT !.deduper = << process_chunk(deduper, chunk) >>]
    ELSE [r EXCEPT !.out = write_chunk(@, chunk, ~r.first_chunk_written),
                   !.first_chunk_written = TRUE]

\* variant: rows_done carries the rows of the batch, not the running total
progress_step_rows_of_batch(r, c, chunk) ==
    LET est == c.rows_total_estimate
        pct == (Len(chunk) * 100) \div (IF est > 0 THEN est ELSE 1)
        percent == IF est # 0 /\ est > 0
                   THEN << IF pct > 100 THEN 100 ELSE IF pct < 0 THEN 0 ELSE pct >>
                   ELSE <<>>
    IN  progress_call(r, c, "processing", Len(chunk), percent)

\* the progress callback after a batch: percent is
\* max(0, min(100, int(rows_done * 100 / rows_total_estimate)))
progress_step(r, c, chunk) ==
    LET est == c.rows_total_estimate
        pct == (r.rows_done * 100) \div (IF est > 0 THEN est ELSE 1)
        percent == IF est # 0 /\ est > 0
                   THEN << IF pct > 100 THEN 100 ELSE IF pct < 0 THEN 0 ELSE pct >>
                   ELSE <<>>
    IN  progress_call(r, c, "processing", r.rows_done, percent)

\* variant: the rows are filtered and merged or written before the rules run
run_batch_rules_last(r, c, chunk) ==
    LET r1 == [r EXCEPT !.rows_total = @ + Len(chunk), !.rows_done = @ + Len(chunk)]
        ru == rules_step(c.profile.columns, FileColumns, r1.cols_stats, chunk, c)
        r2 == [r1 EXCEPT !.cols_stats = ru.cols_stats]
        rf == row_filter_step(r2, FileColumns, chunk)
        r3 == dedup_or_write_step(rf.run, c, FileColumns, rf.chunk)
    IN  IF ru.error # "" THEN [r2 EXCEPT !.error = ru.error]
        ELSE IF r3.error # "" THEN r3
        ELSE progress_step(r3, c, chunk)

\* one iteration of the loop over the reader; a step that raises ends it
run_batch(r, c, chunk) ==
    LET r1 == [r EXCEPT !.rows_total = @ + Len(chunk), !.rows_done = @ + Len(chunk)]
        ru == rules_step(c.profile.columns, FileColumns, r1.cols_stats, chunk, c)
        r2 == [r1 EXCEPT !.cols_stats = ru.cols_stats]
        rf == row_filter_step(r2, FileColumns, ru.chunk)
        r3 == dedup_or_write_step(rf.run, c, FileColumns, rf.chunk)
    IN  IF ru.error # "" THEN [r2 EXCEPT !.error = ru.error]
        ELSE IF r3.error # "" THEN r3
        ELSE progress_step(r3, c, chunk)

\* variant: every exported page is written with its header
RECURSIVE write_all_header_each(_, _)
write_all_header_each(r, dfs) ==
    IF dfs = <<>> THEN r
    ELSE write_all_header_each([r EXCEPT !.out = write_chunk(@, Head(dfs), TRUE),
                                         !.first_chunk_written = TRUE],
                               Tail(dfs))

\* for out_df in deduper.export_batches(...): writer.write_chunk(...)
RECURSIVE write_all(_, _)
write_all(r, dfs) ==
    IF dfs = <<>> THEN r
    ELSE write_all([r EXCEPT !.out = write_chunk(@, Head(dfs), ~r.first_chunk_written),
                             !.first_chunk_written = TRUE],
                   Tail(dfs))

\* the five parts of the report, in the order of the LogSink.write calls
report(r, c) ==
    <<"header">>
       \o [k \in 1..Len(SelectSeq(c.profile.columns, LAMBDA cc : cc.col \in DOMAIN r.cols_stats))
             |-> "column"]
       \o <<"row_filters", "dedup", "footer">>

\* variant: the header of the report is written before the export
finish_report_first(r, c) ==
    LET r0 == [r EXCEPT !.log = <<"header">>]
        r1 == IF DedupOn(c) /\ r0.deduper # <<>>
              THEN IF c.store_fault = "export"
                   THEN [r0 EXCEPT !.error = "StoreError"]
                   ELSE [write_all(r0, export_batches(r0.deduper[1], ExportBatchSize))
                            EXCEPT !.dedup_removed = r0.deduper[1].removed]
              ELSE r0
        r2 == progress_call(r1, c, "done", r1.rows_done, <<100>>)
    IN  IF r1.error # "" THEN r1
        ELSE IF r2.error # "" THEN r2
        ELSE [r2 EXCEPT !.log = report(r2, c)]

\* after the loop: export of the dedup store, last callback, the report
finish(r, c) ==
    LET r1 == IF DedupOn(c) /\ r.deduper # <<>>
              THEN IF c.store_fault = "export"
                   THEN [r EXCEPT !.error = "StoreError"]
                   ELSE [write_all(r, export_batches(r.deduper[1], ExportBatchSize))
                            EXCEPT !.dedup_removed = r.deduper[1].removed]
              ELSE r
        r2 == progress_call(r1, c, "done", r1.rows_done, <<100>>)
    IN  IF r1.error # "" THEN r1
        ELSE IF r2.error # "" THEN r2
        ELSE [r2 EXCEPT !.log = report(r2, c)]

\* the locals of run_pipeline before the start callback
NewRun(c) ==
    [ rows_total    |-> 0,
      rows_done     |-> 0,
      delimiter     |-> Delimiter(c),
      encoding      |-> Encoding(c),
      rf_removed    |-> 0,
      dedup_removed |-> 0,
      cols_stats    |-> <<>>,
      out           |-> <<>>,
      first_chunk_written |-> FALSE,
      deduper       |-> <<>>,
      row_filter    |-> IF c.row_filter_one_filled_enabled /\ c.row_filter_subset # <<>>
                        THEN << OneFilledRowFilter(c.row_filter_subset) >>
                        ELSE <<>>,
      progress      |-> <<>>,
      log           |-> <<>>,
      error         |-> "" ]

\* a run with the defaults of the signature, a profile with the e-mail rules
\* and no delimiter or encoding of its own, and a store that does not fail
BaseCfg ==
    [ dedup_enabled |-> FALSE,
      key_col       |-> KeyColumn,
      merge_cols    |-> <<"email">>,
      row_filter_one_filled_enabled |-> FALSE,
      row_filter_subset |-> RowFilterSubset,
      min_length_enabled |-> FALSE,
      min_length_value   |-> 3,
      min_length_columns |-> {},
      chunksize     |-> 1,
      delimiter_override |-> "",
      encoding_override  |-> "",
      profile       |-> [delimiter |-> "", encoding |-> "", columns |-> ColumnsCfg],
      progress_cb   |-> FALSE,
      cb_raises_at  |-> 0,
      rows_total_estimate |-> 0,
      store_fault   |-> "none" ]

PipeCfgs ==
    { [BaseCfg EXCEPT !.dedup_enabled = d, !.row_filter_one_filled_enabled = f,
                      !.chunksize = n, !.progress_cb = p, !.encoding_override = "utf-8"] :
         d \in BOOLEAN, f \in BOOLEAN, n \in 1..MaxChunkSize, p \in BOOLEAN }

PipeInit ==
    /\ cfg \in PipeCfgs
    /\ input \in Files
    /\ reader = read_csv_in_chunks(Delimiter(cfg), Encoding(cfg), cfg.chunksize)
    /\ run = NewRun(cfg)
    /\ phase = "start"

\* the start callback
Start ==
    /\ phase = "start"
    /\ run' = start(run, cfg)
    /\ phase' = IF run'.error = "" THEN "loop" ELSE "failed"
    /\ UNCHANGED <<cfg, input, reader, engineVars, mergeVars, orderVars, lenVars, filterVars,
                 simpleVars, exampleVars>>

\* the reader yields its next batch and the loop body runs on it
Batch ==
    /\ phase = "loop"
    /\ \E o \in read_csv_in_chunks_next(reader, input) :
          /\ o.kind = "yield"
          /\ run' = run_batch(run, cfg, o.chunk)
          /\ reader' = o.rd
    /\ phase' = IF run'.error = "" THEN "loop" ELSE "failed"
    /\ UNCHANGED <<cfg, input, engineVars, mergeVars, orderVars, lenVars, filterVars,
                 simpleVars, exampleVars>>

\* the reader is exhausted: export, last callback, report
Finish ==
    /\ phase = "loop"
    /\ \E o \in read_csv_in_chunks_next(reader, input) :
          /\ o.kind = "return"
          /\ run' = finish(run, cfg)
          /\ reader' = o.rd
    /\ phase' = IF run'.error = "" THEN "done" ELSE "failed"
    /\ UNCHANGED <<cfg, input, engineVars, mergeVars, orderVars, lenVars, filterVars,
                 simpleVars, exampleVars>>

\* no candidate encoding is left: the reader raises its last error
ReadAborts ==
    /\ phase = "loop"
    /\ \E o \in read_csv_in_chunks_next(reader, input) :
          /\ o.kind = "raise"
          /\ run' = [run EXCEPT !.error = "UnicodeDecodeError"]
          /\ reader' = o.rd
    /\ phase' = "failed"
    /\ UNCHANGED <<cfg, input, engineVars, mergeVars, orderVars, lenVars, filterVars,
                 simpleVars, exampleVars>>

InitPipe == PipeInit /\ EngineIdle /\ MergeIdle /\ OrderIdle /\ LenIdle /\ FilterIdle /\ SimpleIdle /\ ExamplesIdle
NextPipe == Start \/ Batch \/ Finish
SpecPipe == InitPipe /\ [][NextPipe]_vars

\* ----------------------------------- run_pipeline with all its arguments
MaxRunRows == 2

\* cells of the e-mail column as bytes: ASCII, a byte that is a letter in
\* cp1251 and ill-formed in UTF-8, a two-byte UTF-8 letter, and a byte that
\* neither encoding decodes
RunRows ==
    { [id |-> <<"1">>, email |-> v, name |-> <<"x">>] :
         v \in { <<"A">>, <<"E9">>, <<"C3", "A9">>, <<"98">> } }

RunFiles == UNION { [1..n -> RunRows] : n \in 1..MaxRunRows }

\* profiles: the well-formed one, a step with two keys, a step that is not a
\* mapping, an unknown rule name, and an unknown rule name on a column that
\* the file does not have
Profiles ==
    { ColumnsCfg,
      << [col |-> "email",
          rules |-> << [is_dict |-> TRUE, keys |-> <<"to_lower", "strip_whitespace">>] >>] >>,
      << [col |-> "email",
          rules |-> << Step("to_lower"), [is_dict |-> FALSE, keys |-> <<>>] >>] >>,
      << [col |-> "name", rules |-> << Step("to_lower") >>],
         [col |-> "email", rules |-> << Step("no_such_rule") >>] >>,
      << [col |-> "zip", rules |-> << Step("no_such_rule") >>] >> }

\* the arguments varied one group at a time around BaseCfg
ReadCfgs ==
    { [BaseCfg EXCEPT !.encoding_override = e, !.delimiter_override = d,
                      !.profile = [@ EXCEPT !.delimiter = g]] :
         e \in { "", "utf-8", "cp1251" }, d \in { "", ";" }, g \in { "", "|" } }

ProfileCfgs ==
    { [BaseCfg EXCEPT !.profile = [@ EXCEPT !.columns = p], !.progress_cb = cb] :
         p \in Profiles, cb \in BOOLEAN }

ProgressCfgs ==
    { [BaseCfg EXCEPT !.progress_cb = TRUE, !.cb_raises_at = k, !.rows_total_estimate = est] :
         k \in 0..(MaxRunRows + 2), est \in { 0, 1, 3, -1 } }

FaultCfgs ==
    { [BaseCfg EXCEPT !.store_fault = f, !.progress_cb = p, !.rows_total_estimate = 3] :
         f \in { "process_chunk", "export" }, p \in BOOLEAN }

RunCfgs ==
    { [c EXCEPT !.dedup_enabled = d, !.chunksize = n] :
         c \in ReadCfgs \cup ProfileCfgs \cup ProgressCfgs \cup FaultCfgs,
         d \in BOOLEAN, n \in 1..MaxChunkSize }

RunInit ==
    /\ cfg \in RunCfgs
    /\ input \in RunFiles
    /\ reader = read_csv_in_chunks(Delimiter(cfg), Encoding(cfg), cfg.chunksize)
    /\ run = NewRun(cfg)
    /\ phase = "start"

InitRun == RunInit /\ EngineIdle /\ MergeIdle /\ OrderIdle /\ LenIdle /\ FilterIdle /\ SimpleIdle /\ ExamplesIdle
NextRun == Start \/ Batch \/ Finish \/ ReadAborts
SpecRun == InitRun /\ [][NextRun]_vars

\* --------------------------- run_pipeline: rules, row filter and dedup
MaxFlowRows == 2

\* a profile with rules on the key column as well
KeyProfile ==
    << [col |-> "id",    rules |-> << Step("strip_whitespace"), Step("to_lower") >>],
       [col |-> "email", rules |-> << Step("strip_whitespace"), Step("to_lower") >>] >>

\* rows whose keys, e-mails and names are changed or emptied by the rules;
\* the key of the fifth has the form of the engine's keys for empty rows
FlowRows ==
    { [id |-> <<"A">>, email |-> <<" ", "A">>, name |-> <<"x">>],
      [id |-> <<"a">>, email |-> <<"B">>,      name |-> <<"x">>],
      [id |-> <<" ">>, email |-> <<" ">>,      name |-> <<"x">>],
      [id |-> <<>>,    email |-> <<" ", "A">>, name |-> <<>>],
      [id |-> EmptyPrefix \o <<"2">>, email |-> <<" ", "A">>, name |-> <<"x">>],
      [id |-> <<>>,    email |-> <<>>,         name |-> <<"x">>] }

FlowFiles == UNION { [1..n -> FlowRows] : n \in 1..MaxFlowRows }

\* min_length_enabled and min_length_columns
MinLengthArgs ==
    { [enabled |-> FALSE, columns |-> {"email"}],
      [enabled |-> TRUE,  columns |-> {}],
      [enabled |-> TRUE,  columns |-> {"email"}],
      [enabled |-> TRUE,  columns |-> {"name"}],
      [enabled |-> TRUE,  columns |-> {"email", "name"}],
      [enabled |-> TRUE,  columns |-> {"zip"}] }

FlowCfgs ==
    { [BaseCfg EXCEPT !.dedup_enabled = d, !.row_filter_one_filled_enabled = f,
                      !.chunksize = n, !.encoding_override = "utf-8",
                      !.profile = [@ EXCEPT !.columns = p],
                      !.min_length_enabled = ml.enabled,
                      !.min_length_columns = ml.columns] :
         d \in BOOLEAN, f \in BOOLEAN, n \in 1..MaxChunkSize,
         p \in { ColumnsCfg, KeyProfile }, ml \in MinLengthArgs }

FlowInit ==
    /\ cfg \in FlowCfgs
    /\ input \in FlowFiles
    /\ reader = read_csv_in_chunks(Delimiter(cfg), Encoding(cfg), cfg.chunksize)
    /\ run = NewRun(cfg)
    /\ phase = "start"

InitFlow == FlowInit /\ EngineIdle /\ MergeIdle /\ OrderIdle /\ LenIdle /\ FilterIdle
               /\ SimpleIdle /\ ExamplesIdle
NextFlow == Start \/ Batch \/ Finish
SpecFlow == InitFlow /\ [][NextFlow]_vars

\* ------------------------------------------- min_length_clear on its own
MaxValLen == 4
MaxMinLen == 4
LenAlphabet == { "L", "i", "A", "n", "a", " ", "-", "U+200B" }
LenValues   == UNION { [1..n -> LenAlphabet] : n \in 0..MaxValLen }

LenInit ==
    /\ lVal \in LenValues
    /\ lMin \in 1..MaxMinLen
    /\ lOut = <<>>
    /\ lPc = "call"

LenCall ==
    /\ lPc = "call"
    /\ lOut' = min_length_clear(lVal, lMin)
    /\ lPc' = "done"
    /\ UNCHANGED <<lVal, lMin, engineVars, mergeVars, orderVars, pipeVars, filterVars,
                 simpleVars, exampleVars>>

InitLen == LenInit /\ EngineIdle /\ MergeIdle /\ OrderIdle /\ PipeIdle /\ FilterIdle /\ SimpleIdle /\ ExamplesIdle
NextLen == LenCall
SpecLen == InitLen /\ [][NextLen]_vars

\* ------------------------------------- OneFilledRowFilter on its own
MaxFilterRows == 2
MaxApply      == 2

FilterColumns == <<"a", "b", "c">>
\* subsets with columns of the data and with a column the data does not have
FilterSubsets ==
    { <<>>, <<"a", "b", "c">>, <<"a", "b">>, <<"c", "d", "a">>, <<"b", "d">>, <<"d">> }

\* rows with no, one, two cells of a, b, c filled; a blank counts as filled
FilterRows ==
    { [a |-> <<>>,    b |-> <<>>,    c |-> <<>>],
      [a |-> <<"x">>, b |-> <<>>,    c |-> <<>>],
      [a |-> <<"x">>, b |-> <<"y">>, c |-> <<>>],
      [a |-> <<"x">>, b |-> <<>>,    c |-> <<" ">>],
      [a |-> <<>>,    b |-> <<"y">>, c |-> <<" ">>] }

FilterDfs == UNION { [1..n -> FilterRows] : n \in 0..MaxFilterRows }

FilterInit ==
    /\ \E s \in FilterSubsets : fRf = OneFilledRowFilter(s)
    /\ fDf = <<>>
    /\ fOut = <<>>
    /\ fCalls = 0

\* one call of apply on the next batch
FilterApply ==
    /\ fCalls < MaxApply
    /\ \E df \in FilterDfs :
          LET res == OneFilledRowFilter_apply(fRf, FilterColumns, df)
          IN  /\ fDf' = df
              /\ fOut' = res.df
              /\ fRf' = res.rf
    /\ fCalls' = fCalls + 1
    /\ UNCHANGED <<engineVars, mergeVars, orderVars, pipeVars, lenVars,
                 simpleVars, exampleVars>>

InitFilter == FilterInit /\ EngineIdle /\ MergeIdle /\ OrderIdle /\ PipeIdle /\ LenIdle /\ SimpleIdle /\ ExamplesIdle
NextFilter == FilterApply
SpecFilter == InitFilter /\ [][NextFilter]_vars

\* ------------------------------------------------- the simple DedupEngine
DedupEngine(subset, ignore_empty_in_subset) ==
    [ subset |-> subset,
      ignore_empty_in_subset |-> ignore_empty_in_subset,
      seen    |-> {},
      removed |-> 0 ]

\* _make_keys, for one row: the subset's values joined with "||"
RECURSIVE _make_keys(_, _)
_make_keys(subset, row) ==
    IF subset = <<>> THEN <<>>
    ELSE IF Len(subset) = 1 THEN row[subset[1]]
    ELSE row[subset[1]] \o <<"|", "|">> \o _make_keys(Tail(subset), row)

\* filter_chunk: the masks are computed for the whole batch against the keys
\* seen before the call, then the new keys are added to _seen
filter_chunk(eng, columns, df) ==
    LET keys(row)         == _make_keys(eng.subset, row)
        empty_mask(row)   == /\ eng.ignore_empty_in_subset
                             /\ \A c \in Range(eng.subset) : row[c] = <<>>
        already_seen(row) == keys(row) \in eng.seen
        keep_mask(row)    == empty_mask(row) \/ ~already_seen(row)
        kept        == SelectSeq(df, keep_mask)
        removed_now == Len(df) - Len(kept)
        to_add      == { keys(df[i]) : i \in { k \in 1..Len(df) :
                                                 ~empty_mask(df[k]) /\ ~already_seen(df[k]) } }
    IN  IF eng.subset = <<>> \/ ~(Range(eng.subset) \subseteq Range(columns))
        THEN [df |-> df, eng |-> eng]
        ELSE [df  |-> kept,
              eng |-> [eng EXCEPT !.removed = @ + removed_now, !.seen = @ \cup to_add]]

MaxSimpleRows  == 3
MaxSimpleChunk == 2
MaxSimpleCalls == 3

SimpleSubsets == { <<>>, <<"id">>, <<"id", "email">>, <<"id", "zip">> }

\* the rows of the stream; the name column carries the ordinal of the row
SimpleRowsAt(n) ==
    { [id |-> k, email |-> v, name |-> NameOf(n)] :
         k \in { <<>>, <<"1">>, <<"2">> }, v \in { <<>>, <<"a">> } }

RECURSIVE SimpleChunksFrom(_, _)
SimpleChunksFrom(n, len) ==
    IF len = 0 THEN { <<>> }
    ELSE { <<r>> \o rest : r \in SimpleRowsAt(n), rest \in SimpleChunksFrom(n + 1, len - 1) }

\* the number of rows handed to filter_chunk so far
RECURSIVE RowsFed(_)
RowsFed(dfs) == IF dfs = <<>> THEN 0 ELSE Len(Head(dfs)) + RowsFed(Tail(dfs))

SimpleInit ==
    /\ \E s \in SimpleSubsets, ie \in BOOLEAN : sEngine = DedupEngine(s, ie)
    /\ sFed = <<>>
    /\ sRet = <<>>

\* one call of filter_chunk on the next batch of the stream
FilterChunk ==
    /\ Len(sFed) < MaxSimpleCalls
    /\ \E len \in 0..MaxSimpleChunk :
          /\ RowsFed(sFed) + len <= MaxSimpleRows
          /\ \E df \in SimpleChunksFrom(RowsFed(sFed) + 1, len) :
                LET res == filter_chunk(sEngine, AllColumns, df)
                IN  /\ sEngine' = res.eng
                    /\ sFed' = Append(sFed, df)
                    /\ sRet' = Append(sRet, res.df)
    /\ UNCHANGED <<engineVars, mergeVars, orderVars, pipeVars, lenVars, filterVars,
                   exampleVars>>

InitSimple == SimpleInit /\ EngineIdle /\ MergeIdle /\ OrderIdle /\ PipeIdle /\ LenIdle
                 /\ FilterIdle /\ ExamplesIdle
NextSimple == FilterChunk
SpecSimple == InitSimple /\ [][NextSimple]_vars

\* ------------------------------------------- the examples of the report
EXAMPLES_LIMIT == 25

\* int(round(num / den)): Python rounds a tie to the even neighbour; for the
\* list lengths in use the float product i * step falls on the same side of
\* the tie as the exact quotient
RoundHalfEven(num, den) ==
    LET q == num \div den
        r == num % den
    IN  IF 2 * r < den THEN q
        ELSE IF 2 * r > den THEN q + 1
        ELSE IF q % 2 = 0 THEN q ELSE q + 1

\* the first occurrences of a list, in order
RECURSIVE Uniq(_)
Uniq(xs) ==
    IF xs = <<>> THEN <<>>
    ELSE LET init == Uniq(SubSeq(xs, 1, Len(xs) - 1))
             last == xs[Len(xs)]
         IN  IF last \in Range(init) THEN init ELSE Append(init, last)

\* _pick_diverse: up to k entries spread evenly over the list
_pick_diverse(idx_list, k) ==
    LET n == Len(idx_list)
        pos(i) == LET p == RoundHalfEven(i * (n - 1), k - 1)
                  IN  IF p >= n THEN n - 1 ELSE p
        out  == [i \in 1..k |-> idx_list[pos(i - 1) + 1]]
        uniq == Uniq(out)
        fill == uniq \o SelectSeq(idx_list, LAMBDA j : j \notin Range(uniq))
    IN  IF n = 0 \/ k <= 0 THEN <<>>
        ELSE IF n <= k THEN idx_list
        ELSE SubSeq(fill, 1, k)

Min(a, b) == IF a < b THEN a ELSE b
Max(a, b) == IF a > b THEN a ELSE b

\* the examples one batch offers for a column: before and after are the
\* trimmed cells of the batch, index the labels of its rows
batch_examples(before, after, index) ==
    LET idx == 1..Len(before)
        changed_mask(i) == before[i] # after[i]
        cleared_mask(i) == before[i] # <<>> /\ after[i] = <<>>
        positions == [i \in idx |-> i]
        norm_candidates    == SelectSeq(positions, LAMBDA i : changed_mask(i) /\ after[i] # <<>>)
        cleared_candidates == SelectSeq(positions, LAMBDA i : cleared_mask(i))
        half == EXAMPLES_LIMIT \div 2
        kn0  == Min(half, Len(norm_candidates))
        kc0  == Min(EXAMPLES_LIMIT - kn0, Len(cleared_candidates))
        kc   == IF kn0 < half
                THEN kc0 + Max(0, Min(EXAMPLES_LIMIT - (kn0 + kc0),
                                      Len(cleared_candidates) - kc0))
                ELSE kc0
        kn   == IF kc < EXAMPLES_LIMIT - half
                THEN kn0 + Max(0, Min(EXAMPLES_LIMIT - (kn0 + kc),
                                      Len(norm_candidates) - kn0))
                ELSE kn0
        norm_idxs    == _pick_diverse(norm_candidates, kn)
        cleared_idxs == _pick_diverse(cleared_candidates, kc)
        examples ==
            [k \in 1..Len(norm_idxs) |->
                [row |-> index[norm_idxs[k]], before |-> before[norm_idxs[k]],
                 after |-> after[norm_idxs[k]], note |-> "normalized"]]
            \o [k \in 1..Len(cleared_idxs) |->
                [row |-> index[cleared_idxs[k]], before |-> before[cleared_idxs[k]],
                 after |-> <<>>, note |-> "cleared"]]
    IN  IF Len(examples) > EXAMPLES_LIMIT THEN SubSeq(examples, 1, EXAMPLES_LIMIT)
        ELSE examples

\* variant: the examples of the newest batch are put in front
extend_examples_newest_first(stored, examples) ==
    LET all == examples \o stored
    IN  SubSeq(all, 1, Min(EXAMPLES_LIMIT, Len(all)))

\* the examples of the batch are appended while there is room
extend_examples(stored, examples) ==
    LET already    == Len(stored)
        space_left == EXAMPLES_LIMIT - already
    IN  IF space_left > 0 /\ examples # <<>>
        THEN stored \o SubSeq(examples, 1, Min(space_left, Len(examples)))
        ELSE stored

MaxCand      == 14
MaxExBatches == 2

\* numbers of candidates of one kind in a batch: few, and around the limits
CandCounts == { 0, 1, 2 } \cup ((MaxCand - 2)..MaxCand)

\* a batch with the given numbers of normalized and cleared cells: the two
\* kinds alternate, a cleared cell first, until one kind runs out
BatchKind(b, i) ==
    IF i <= 2 * Min(b.norm, b.cleared)
    THEN IF i % 2 = 1 THEN "cleared" ELSE "normalized"
    ELSE IF b.norm > b.cleared THEN "normalized" ELSE "cleared"

BatchBefore(b) ==
    [i \in 1..(b.norm + b.cleared) |-> IF BatchKind(b, i) = "normalized" THEN <<"A">> ELSE <<"x">>]
BatchAfter(b) ==
    [i \in 1..(b.norm + b.cleared) |-> IF BatchKind(b, i) = "normalized" THEN <<"a">> ELSE <<>>]
\* the row labels of the batch continue those of the batches before
BatchIndex(b, rows) == [i \in 1..(b.norm + b.cleared) |-> rows + i - 1]

ExamplesInit ==
    /\ xExamples = <<>>
    /\ xRows = 0
    /\ xBatch = [norm |-> 0, cleared |-> 0]
    /\ xCalls = 0

\* the examples part of the loop body, for one column and the next batch
ExamplesBatch ==
    /\ xCalls < MaxExBatches
    /\ \E a \in CandCounts, c \in CandCounts :
          LET b == [norm |-> a, cleared |-> c]
          IN  /\ xBatch' = b
              /\ xExamples' = extend_examples(xExamples,
                                 batch_examples(BatchBefore(b), BatchAfter(b),
                                                BatchIndex(b, xRows)))
              /\ xRows' = xRows + a + c
    /\ xCalls' = xCalls + 1
    /\ UNCHANGED <<engineVars, mergeVars, orderVars, pipeVars, lenVars, filterVars,
                   simpleVars>>

InitExamples == ExamplesInit /\ EngineIdle /\ MergeIdle /\ OrderIdle /\ PipeIdle /\ LenIdle
                   /\ FilterIdle /\ SimpleIdle
NextExamples == ExamplesBatch
SpecExamples == InitExamples /\ [][NextExamples]_vars

\* ------------------------------------------------- vocabulary of the claims
RECURSIVE Flat(_)
Flat(ps) == IF ps = <<>> THEN <<>> ELSE Head(ps) \o Flat(Tail(ps))

\* positions of the log whose store key had not occurred before
FirstIdx(e) == { i \in 1..Len(e.log) : \A j \in 1..(i - 1) : e.log[j].key # e.log[i].key }

\* position at which a store key first appeared in the input stream
FirstPos(e, key) == CHOOSE i \in FirstIdx(e) : e.log[i].key = key

EmptyKeyIdx(e) == { i \in 1..Len(e.log) : Get(e.log[i].row, e.key_column) = <<>> }
NonEmptyKeyIdx(e) == (1..Len(e.log)) \ EmptyKeyIdx(e)

\* columns that a duplicate must leave alone: all but the merge columns,
\* the key column included
NonMergeCols == { c \in Range(AllColumns) : c \notin Range(MergeColumns) \/ c = KeyColumn }
MergeCols    == Range(AllColumns) \ NonMergeCols

Restrict(f, S) == [c \in S |-> f[c]]

\* s occurs in t as a contiguous piece
Occurs(s, t) ==
    \E i \in 0..(Len(t) - Len(s)) : SubSeq(t, i + 1, i + Len(s)) = s

\* the non-empty ';'-separated fragments of a value, each trimmed
TrimFrags(s) == { Strip(p) : p \in Range(Split(Strip(s), ";")) } \ { <<>> }

\* C1: with ignore_empty, a row with an empty key always gets a record of
\* its own: it is inserted, no other row shares its record, and the export
\* carries one row with an empty key per such input row.
C1_EmptyKeyRowsStayAlone ==
    engine.ignore_empty =>
        /\ \A i \in EmptyKeyIdx(engine) :
              /\ ~engine.log[i].hit
              /\ \A j \in (1..Len(engine.log)) \ {i} :
                    engine.log[j].key # engine.log[i].key
        /\ pc = "exported" =>
              Cardinality({ i \in 1..Len(Flat(pages)) : Flat(pages)[i][KeyColumn] = <<>> })
                 = Cardinality(EmptyKeyIdx(engine))

\* C2: the export yields every store record exactly once, in pages of 1 to
\* batch_size rows, ordered by the position at which the record's key first
\* appeared in the input.
C2_ExportInInsertionOrder ==
    pc = "exported" =>
        LET out == Flat(pages)
            recOf(i) == { r \in engine.agg : r.cols = out[i] }
        IN  /\ \A p \in 1..Len(pages) : Len(pages[p]) >= 1 /\ Len(pages[p]) <= BatchSize
            /\ Len(out) = Cardinality(engine.agg)
            /\ \A r \in engine.agg :
                  Cardinality({ i \in 1..Len(out) : out[i] = r.cols }) = 1
            /\ \A i \in 1..Len(out) : \A j \in (i + 1)..Len(out) :
                  \A r1 \in recOf(i) : \A r2 \in recOf(j) :
                     FirstPos(engine, r1.key) < FirstPos(engine, r2.key)

\* a run whose export has two pages and whose first-seen order is not the
\* order of the key values ("2" was seen before "1")
C2_Witness ==
    /\ pc = "exported"
    /\ Len(pages) = 2
    /\ Flat(pages)[1][KeyColumn] = <<"2">>
    /\ Flat(pages)[2][KeyColumn] = <<"1">>

\* C3: a process_chunk step keeps every record, its key, its sequence
\* number and its non-merge columns, and leaves alone the records whose key
\* no row of the chunk hit; so every record, and every exported row, carries
\* the non-merge columns of the first row seen with its key.
C3_Frame ==
    LET newHits == { engine'.log[i].key : i \in (Len(engine.log) + 1)..Len(engine'.log) }
    IN  \A r \in engine.agg :
           \E r2 \in engine'.agg :
              /\ r2.key = r.key
              /\ r2.order = r.order
              /\ Restrict(r2.cols, NonMergeCols) = Restrict(r.cols, NonMergeCols)
              /\ r.key \notin newHits => r2 = r

C3_Exemplar ==
    /\ \A r \in engine.agg :
          Restrict(r.cols, NonMergeCols)
             = Restrict(engine.log[FirstPos(engine, r.key)].row, NonMergeCols)
    /\ pc = "exported" =>
          \A i \in 1..Len(Flat(pages)) :
             \E k \in FirstIdx(engine) :
                Restrict(Flat(pages)[i], NonMergeCols)
                   = Restrict(engine.log[k].row, NonMergeCols)

C3_OnlyMergeColumnsChange == [][C3_Frame]_vars /\ []C3_Exemplar

\* a duplicate from a later chunk changed the merge column of its record,
\* and its own non-merge column differs from the exemplar's
C3_Witness ==
    /\ pc = "exported"
    /\ \E i \in 1..Len(engine.log) :
          /\ engine.log[i].hit
          /\ \E r \in engine.agg :
                /\ r.key = engine.log[i].key
                /\ r.cols["name"] # engine.log[i].row["name"]
                /\ r.cols["email"] # engine.log[FirstPos(engine, r.key)].row["email"]

\* C4 (as claimed): the trimmed non-empty value of every processed row
\* occurs in the merged value stored for its key.
C4_ValueOccursInMerged ==
    \A i \in 1..Len(engine.log) : \A c \in MergeCols :
       LET v == Strip(engine.log[i].row[c])
       IN  v # <<>> =>
              \A r \in engine.agg :
                 r.key = engine.log[i].key => Occurs(v, r.cols[c])

\* C4 (amended): every non-empty trimmed ';'-fragment of the value of every
\* processed row is a trimmed ';'-fragment of the merged value stored, and
\* exported, for its key.
C4_FragmentsKept ==
    /\ \A i \in 1..Len(engine.log) : \A c \in MergeCols :
          \A r \in engine.agg :
             r.key = engine.log[i].key =>
                TrimFrags(engine.log[i].row[c]) \subseteq TrimFrags(r.cols[c])
    /\ pc = "exported" =>
          \A i \in 1..Len(engine.log) : \A c \in MergeCols :
             \E k \in 1..Len(Flat(pages)) :
                TrimFrags(engine.log[i].row[c]) \subseteq TrimFrags(Flat(pages)[k][c])

\* the exemplar "a" and a duplicate " b" ended up as "a;b" in the export
C4_Witness ==
    /\ pc = "exported"
    /\ \E k \in 1..Len(Flat(pages)) : Flat(pages)[k]["email"] = <<"a", ";", "b">>
    /\ \E i \in 1..Len(engine.log) :
          engine.log[i].hit /\ engine.log[i].row["email"] = <<" ", "b">>

\* C6: every stored merge value, split on ';', consists of pairwise
\* distinct non-empty fragments (the empty value has none).
C6_MergeValueDuplicateFree ==
    \A r \in engine.agg : \A c \in MergeCols :
       LET fr == Split(r.cols[c], ";")
       IN  r.cols[c] # <<>> =>
              /\ \A i \in 1..Len(fr) : fr[i] # <<>>
              /\ \A i \in 1..Len(fr) : \A j \in 1..Len(fr) : i # j => fr[i] # fr[j]

\* C8: the second engine, fed the export of the first, removes nothing and
\* exports as many rows as it received.
C8_DedupIdempotent ==
    pc = "rerun" =>
        /\ engine2.removed = 0
        /\ Len(engine2.log) = Len(Flat(pages))
        /\ Len(Flat(pages2)) = Len(Flat(pages))

\* the first run did remove a duplicate, and it re-fed a row with an empty
\* key next to a row with a non-empty key
C8_Witness ==
    /\ pc = "rerun"
    /\ engine.removed > 0
    /\ Len(engine2.log) >= 2
    /\ EmptyKeyIdx(engine2) # {}

\* C10: removed = (rows with a non-empty key) - (distinct non-empty keys);
\* rows with an empty key never add to it; for keys [1, 1, 2] it is 1.
C10_RemovedCount ==
    engine.ignore_empty =>
        LET keyOf(i) == Get(engine.log[i].row, engine.key_column)
        IN  /\ engine.removed =
                  Cardinality(NonEmptyKeyIdx(engine))
                     - Cardinality({ keyOf(i) : i \in NonEmptyKeyIdx(engine) })
            /\ [i \in 1..Len(engine.log) |-> keyOf(i)] = << <<"1">>, <<"1">>, <<"2">> >>
                  => engine.removed = 1

\* C5: the reference merge, written from its contract: trimming by the
\* positions of the non-blank characters, fragments by the positions of ';'.
RefTrim(s) ==
    LET solid == { i \in 1..Len(s) : s[i] # " " }
    IN  IF solid = {} THEN <<>>
        ELSE SubSeq(s, CHOOSE i \in solid : \A j \in solid : i <= j,
                       CHOOSE i \in solid : \A j \in solid : i >= j)

RefFragments(s) ==
    LET seps  == { i \in 1..Len(s) : s[i] = ";" }
        cut   == seps \cup { 0, Len(s) + 1 }
        nth(k) == CHOOSE c \in cut : Cardinality({ d \in cut : d < c }) = k
    IN  [k \in 1..(Cardinality(cut) - 1) |-> SubSeq(s, nth(k - 1) + 1, nth(k) - 1)]

RECURSIVE RefJoin(_)
RefJoin(fr) ==
    IF Len(fr) = 0 THEN <<>>
    ELSE IF Len(fr) = 1 THEN fr[1]
    ELSE RefJoin(SubSeq(fr, 1, Len(fr) - 1)) \o <<";">> \o fr[Len(fr)]

RefMerge(existing, new) ==
    LET ex == RefTrim(existing)
        nv == RefTrim(new)
        fr == RefFragments(ex)
        present == \E k \in 1..Len(fr) : fr[k] = nv
        all == IF present THEN fr ELSE fr \o <<nv>>
    IN  IF nv = <<>> THEN ex
        ELSE IF ex = <<>> THEN nv
        ELSE RefJoin(SelectSeq(all, LAMBDA f : f # <<>>))

\* C5: _merge_semicolon(existing, new) equals the reference merge for every
\* pair of strings.
C5_MergeEqualsReference ==
    mPc = "done" => mOut = RefMerge(mEx, mNew)

\* a call on the last branch: existing is split, loses an empty fragment and
\* gains the trimmed new value
C5_Witness ==
    /\ mPc = "done"
    /\ mEx = <<"a", ";", ";">>
    /\ mNew = <<" ", "b">>
    /\ mOut = <<"a", ";", "b">>

\* C7: rows with the same key, processed in any two orders, leave the same
\* set of distinct ';'-separated fragments in every merge column.
FragSet(v) == Range(Split(v, ";")) \ { <<>> }

C7_SameFragmentsInAnyOrder ==
    (Len(engA.log) = Len(oRows) /\ Len(engB.log) = Len(oRows)) =>
        \A ra \in engA.agg : \A rb \in engB.agg : \A c \in MergeCols :
           FragSet(ra.cols[c]) = FragSet(rb.cols[c])

\* rows the reader has handed out so far, rows written by the loop itself,
\* rows handed to process_chunk
RECURSIVE SumLen(_)
SumLen(dfs) == IF dfs = <<>> THEN 0 ELSE Len(Head(dfs)) + SumLen(Tail(dfs))

RowsRead     == SumLen([k \in 1..Len(reader.delivered) |-> reader.delivered[k].rows])
RowsWrittenDirectly ==
    IF DedupOn(cfg) THEN 0 ELSE SumLen([k \in 1..Len(run.out) |-> run.out[k].rows])
RowsToDedup  == IF run.deduper = <<>> THEN 0 ELSE Len(run.deduper[1].log)

\* C9 (as claimed): rows_total, the rows read, is the rows written directly
\* plus the rows handed to process_chunk, in every configuration.
C9_RowsTotalIsWrittenPlusDeduped ==
    phase \in {"loop", "done"} =>
        /\ run.rows_total = RowsRead
        /\ run.rows_total = RowsWrittenDirectly + RowsToDedup

\* C9 (amended): rows_total is the rows written directly plus the rows
\* handed to process_chunk plus the rows dropped by the row filter.
C9_RowsConserved ==
    phase \in {"loop", "done"} =>
        /\ run.rows_total = RowsRead
        /\ run.rows_total = RowsWrittenDirectly + RowsToDedup + run.rf_removed
        /\ run.row_filter = <<>> => run.rf_removed = 0

\* a finished run over two batches with dedup and row filter on, in which
\* the filter dropped a row and let another through to the engine
C9_Witness ==
    /\ phase = "done"
    /\ DedupOn(cfg)
    /\ run.rf_removed > 0
    /\ RowsToDedup > 0
    /\ Len(run.progress) >= 4

\* ------------------------------------------------------ reader and writer
\* the candidates of the priority list under which the whole file decodes
WholeFileDecodes == { k \in 1..Len(reader.encodings_to_try) :
                         \A i \in 1..Len(input) : Decodes(reader.encodings_to_try[k], input[i]) }

DeliveredRows == Flat([k \in 1..Len(reader.delivered) |-> reader.delivered[k].rows])

\* C11: with encoding 'auto' every delivered batch was decoded under the
\* first candidate under which the whole file decodes, no batch of a
\* candidate that fails on the file is delivered, and when the reader is
\* exhausted each input row has been delivered exactly once.
C11_OneEncodingPerFile ==
    (phase \in {"loop", "done", "failed"} /\ Encoding(cfg) = "auto") =>
        /\ \A k \in 1..Len(reader.delivered) :
              /\ WholeFileDecodes # {}
              /\ reader.delivered[k].enc
                    = reader.encodings_to_try[CHOOSE m \in WholeFileDecodes :
                                                 \A j \in WholeFileDecodes : m <= j]
        /\ phase = "done" =>
              DeliveredRows = [i \in 1..Len(input) |->
                                 DecodeRow(reader.delivered[1].enc, input[i])]

\* C12: the first call of write_chunk has header=True and every later call
\* has header=False, for batches written by the loop and by the export.
C12_HeaderOnFirstWriteOnly ==
    phase \in {"loop", "done"} =>
        \A k \in 1..Len(run.out) : run.out[k].header = (k = 1)

\* a finished run with dedup enabled whose export wrote two pages
C12_Witness ==
    /\ phase = "done"
    /\ DedupOn(cfg)
    /\ Len(run.out) = 2
    /\ Len(run.out[2].rows) > 0

\* C13: the output file of a run that completed holds the header row.
C13_OutputHasHeader ==
    phase = "done" => \E k \in 1..Len(run.out) : run.out[k].header


\* C14: every batch of the output file is written with the delimiter the
\* run read the input with (override, else the profile's, else ',').
C14_OutputDelimiterIsInputDelimiter ==
    phase \in {"loop", "done"} =>
        /\ reader.sep = Delimiter(cfg)
        /\ \A k \in 1..Len(run.out) : run.out[k].sep = reader.sep

\* --------------------------------------------------------------- errors
\* the profile holds a malformed rule step or an unknown rule name
BadProfile(c) ==
    \E k \in 1..Len(c.profile.columns) : rule_error(c.profile.columns[k].rules) # ""

\* C15: with a malformed rule step or an unknown rule name in the profile,
\* on any column and for any file, the run never completes, it has failed
\* by the end of the first batch, and no data row has been written.
C15_BadProfileAbortsFirstBatch ==
    (BadProfile(cfg) /\ phase # "start") =>
        /\ phase # "done"
        /\ phase = "loop" => reader.delivered = <<>>
        /\ \A k \in 1..Len(run.out) : run.out[k].rows = <<>>

\* C16: a run that aborted carries its error and has written no part of
\* the report; the report is written only in a run that read its last batch
\* and finished the export of the dedup store.
C16_NoReportOnAbort ==
    /\ phase = "failed" => (run.error # "" /\ run.log = <<>>)
    /\ (phase \in {"start", "loop", "done", "failed"} /\ run.log # <<>>) =>
          /\ phase = "done"
          /\ run.error = ""
          /\ Len(DeliveredRows) = run.rows_total
          /\ (DedupOn(cfg) /\ run.deduper # <<>>) =>
                Len(Flat([k \in 1..Len(run.out) |-> run.out[k].rows]))
                   = Cardinality(run.deduper[1].agg)

\* a run with dedup enabled that merged its rows and then failed in the
\* export of the store
C16_Witness ==
    /\ phase = "failed"
    /\ run.error = "StoreError"
    /\ cfg.store_fault = "export"
    /\ run.rows_total = 2
    /\ run.log = <<>>

\* ------------------------------------------------------- min_length_clear
\* the rule as the claim words it
ClearsBelowMinLen(v, min_len) ==
    IF v # <<>> /\ Len(Strip(_sanitize_text(v))) < min_len THEN <<>> ELSE v

\* C17: min_length_clear clears every non-empty value whose trimmed and
\* sanitized length is below min_len and leaves every other value as it is;
\* with min_len = 3, "Li" becomes "" and "Anna" stays "Anna".
C17_ClearsExactlyShortValues ==
    lPc = "done" =>
        /\ lOut = ClearsBelowMinLen(lVal, lMin)
        /\ (lVal = <<"L", "i">> /\ lMin = 3) => lOut = <<>>
        /\ (lVal = <<"A", "n", "n", "a">> /\ lMin = 3) => lOut = lVal

\* ---------------------------------------------------- OneFilledRowFilter
\* C18: apply keeps exactly the rows with more than one non-empty column of
\* the configured subset (an absent subset column counts for nothing) and
\* adds the number of dropped rows to removed; with subset [a,b,c] the row
\* {a:x, b:'', c:''} is dropped and {a:x, b:y, c:''} is kept.
C18_Step ==
    fCalls' = fCalls + 1 =>
        /\ fOut' = SelectSeq(fDf', LAMBDA row :
                       Cardinality({ c \in Range(fRf.subset) \cap Range(FilterColumns) :
                                        row[c] # <<>> }) > 1)
        /\ fRf'.removed = fRf.removed + (Len(fDf') - Len(fOut'))
        /\ fRf'.subset = fRf.subset

FilterInEffect == Range(fRf.subset) \cap Range(FilterColumns) # {}

C18_StepInEffect ==
    fCalls' = fCalls + 1 =>
        /\ FilterInEffect =>
              /\ fOut' = SelectSeq(fDf', LAMBDA row :
                             Cardinality({ c \in Range(fRf.subset) \cap Range(FilterColumns) :
                                              row[c] # <<>> }) > 1)
              /\ fRf'.removed = fRf.removed + (Len(fDf') - Len(fOut'))
        /\ ~FilterInEffect => (fOut' = fDf' /\ fRf'.removed = fRf.removed)
        /\ fRf'.subset = fRf.subset

C18_Examples ==
    (fCalls > 0 /\ fRf.subset = <<"a", "b", "c">>) =>
        \A k \in 1..Len(fDf) :
           /\ fDf[k] = [a |-> <<"x">>, b |-> <<>>, c |-> <<>>] => fDf[k] \notin Range(fOut)
           /\ fDf[k] = [a |-> <<"x">>, b |-> <<"y">>, c |-> <<>>] => fDf[k] \in Range(fOut)

Processing == SelectSeq(run.progress, LAMBDA p : p.phase = "processing")

\* rows of the first k batches the reader has yielded
RECURSIVE CumRows(_)
CumRows(k) == IF k = 0 THEN 0 ELSE CumRows(k - 1) + Len(reader.delivered[k].rows)

\* the run failed inside the loop body, before the callback of that batch
AbortedInBatch ==
    /\ phase = "failed"
    /\ \/ run.error \in { "ValueError", "KeyError" }
       \/ run.error = "StoreError" /\ cfg.store_fault = "process_chunk"

\* C19: with a callback, there is one 'processing' call per batch read, made
\* after the batch went through rules, row filter and write-or-merge, with
\* rows_done the rows read so far; rows_done never decreases from one call to
\* the next, and percent, when present, lies in 0..100.
C19_ProgressOncePerBatch ==
    cfg.progress_cb =>
        /\ Len(Processing) = Len(reader.delivered) - (IF AbortedInBatch THEN 1 ELSE 0)
        /\ \A k \in 1..Len(Processing) : Processing[k].rows_done = CumRows(k)
        /\ \A k \in 1..(Len(run.progress) - 1) :
              run.progress[k].rows_done <= run.progress[k + 1].rows_done
        /\ \A k \in 1..Len(run.progress) :
              run.progress[k].percent # <<>> => run.progress[k].percent[1] \in 0..100
        /\ IF DedupOn(cfg)
           THEN Len(Processing) > 0 => Len(run.deduper[1].log) >= CumRows(Len(Processing))
           ELSE Len(run.out) >= Len(Processing)

\* a finished run of two batches with an estimate of three rows
C19_Witness ==
    /\ phase = "done"
    /\ cfg.progress_cb
    /\ cfg.rows_total_estimate = 3
    /\ Len(run.progress) = 4
    /\ run.progress[2].percent = <<33>>
    /\ run.progress[3].percent = <<66>>
    /\ run.progress[4].percent = <<100>>

\* what a run leaves behind: the output, the dedup store, the counters
Obs(r) ==
    [ out           |-> r.out,
      store         |-> IF r.deduper = <<>> THEN {} ELSE r.deduper[1].agg,
      rf_removed    |-> r.rf_removed,
      dedup_removed |-> r.dedup_removed,
      cols_stats    |-> r.cols_stats ]

\* the runs of run_pipeline from r to their end: the final locals
RECURSIVE RunToEnd(_, _, _, _)
RunToEnd(r, rd, c, file) ==
    UNION { IF o.kind = "yield"
            THEN LET r1 == run_batch(r, c, o.chunk)
                 IN  IF r1.error # "" THEN { r1 } ELSE RunToEnd(r1, o.rd, c, file)
            ELSE IF o.kind = "return" THEN { finish(r, c) }
            ELSE { [r EXCEPT !.error = "UnicodeDecodeError"] } :
            o \in read_csv_in_chunks_next(rd, file) }

WithoutCallback == [cfg EXCEPT !.progress_cb = FALSE]

\* C20: a run with a callback, whatever the callback does, ends with the
\* output, dedup store, removed counters and column statistics of a run of
\* the same input and configuration without callback.
C20_CallbackIsObservational ==
    (cfg.progress_cb /\ phase \in {"done", "failed"}) =>
        \E f \in RunToEnd(NewRun(WithoutCallback),
                          read_csv_in_chunks(Delimiter(cfg), Encoding(cfg), cfg.chunksize),
                          WithoutCallback, input) :
           Obs(f) = Obs(run)

\* ------------------------------------------------- counters of the store
\* C29: after any process_chunk calls _order_counter is the number of
\* records, the records carry the orders 1.._order_counter once each, no two
\* records share a key, and records plus removed do not exceed the rows
\* processed.
C29_StoreCounters ==
    /\ engine.order_counter = Cardinality(engine.agg)
    /\ { r.order : r \in engine.agg } = 1..engine.order_counter
    /\ \A r, s \in engine.agg : (r.key = s.key \/ r.order = s.order) => r = s
    /\ Cardinality(engine.agg) + engine.removed <= Len(engine.log)

\* two records and a counted duplicate after three rows
C29_Witness ==
    /\ pc = "feeding"
    /\ Cardinality(engine.agg) = 2
    /\ engine.removed = 1
    /\ Len(engine.log) = 3

\* ------------------------------------------------- the simple DedupEngine
\* C26: over any filter_chunk calls with a key subset, the rows returned hold
\* at most one row per non-empty key, namely the first row fed with that
\* key, whether the duplicates come in different batches or in one, and
\* removed is the number of rows fed and not returned.
C26_KeepsFirstPerKey ==
    LET fed == Flat(sFed)
        ret == Flat(sRet)
        key(row)      == _make_keys(sEngine.subset, row)
        nonEmpty(row) == \E c \in Range(sEngine.subset) : row[c] # <<>>
    IN  (sEngine.subset # <<>> /\ Range(sEngine.subset) \subseteq Range(AllColumns)) =>
           /\ \A i, j \in 1..Len(ret) :
                 (i < j /\ nonEmpty(ret[i]) /\ key(ret[i]) = key(ret[j])) => FALSE
           /\ \A i \in 1..Len(ret) :
                 nonEmpty(ret[i]) =>
                    \E k \in 1..Len(fed) :
                       /\ fed[k] = ret[i]
                       /\ \A m \in 1..(k - 1) : key(fed[m]) # key(fed[k])
           /\ sEngine.removed = Len(fed) - Len(ret)

\* ------------------------------------------------ the examples of a column
\* what the last batch added to the list
C25_Added == SubSeq(xExamples', Len(xExamples) + 1, Len(xExamples'))

C25_Step ==
    /\ Len(xExamples') >= Len(xExamples)
    /\ SubSeq(xExamples', 1, Len(xExamples)) = xExamples
    /\ \A i, j \in 1..Len(C25_Added) :
          i < j => ~(C25_Added[i].note = "cleared" /\ C25_Added[j].note = "normalized")

\* C25: the examples list of a column never holds more than 25 entries; a
\* batch only appends to it, leaving the stored entries and their order as
\* they are; and in what one batch appends, the "normalized" examples come
\* before the "cleared" ones.
C25_ExamplesCappedAppendOnly ==
    /\ [](Len(xExamples) <= 25)
    /\ [][C25_Step]_vars

\* a full list after two batches: the first gave both kinds, the second
\* had more candidates than there was room and added both kinds as well
C25_Witness ==
    /\ xCalls = 2
    /\ Len(xExamples) = 25
    /\ xBatch.norm + xBatch.cleared > 2
    /\ LET from == xRows - (xBatch.norm + xBatch.cleared)
       IN  /\ \E i, j \in 1..25 :
                /\ i < j
                /\ xExamples[j].row < from
                /\ xExamples[i].note = "normalized" /\ xExamples[j].note = "cleared"
           /\ \E i, j \in 1..25 :
                /\ i < j
                /\ xExamples[i].row >= from
                /\ xExamples[i].note = "normalized" /\ xExamples[j].note = "cleared"

\* ------------------------------------- rules, row filter and dedup in a run
\* the rule steps the profile has for a column, none if it has no entry
HasEntry(c, col) == \E k \in 1..Len(c.profile.columns) : c.profile.columns[k].col = col
ProfileRules(c, col) ==
    LET es == SelectSeq(c.profile.columns, LAMBDA e : e.col = col)
    IN  IF es = <<>> THEN <<>> ELSE es[1].rules

\* a column designated for minimum-length clearing
Designated(c, col) == c.min_length_enabled /\ col \in c.min_length_columns

\* a cell after the rule chain of its column
AfterChain(c, col, v) == apply_rules(ProfileRules(c, col), v)

\* a cell after the rules step of a batch
Written(c, col, v) ==
    IF HasEntry(c, col) /\ Designated(c, col)
    THEN min_length_clear(AfterChain(c, col, v), c.min_length_value)
    ELSE AfterChain(c, col, v)

WrittenRow(c, row) == [col \in DOMAIN row |-> Written(c, col, row[col])]

\* the rows that reached the dedup/write step so far
HandedOn ==
    IF DedupOn(cfg)
    THEN IF run.deduper = <<>> THEN <<>>
         ELSE [k \in 1..Len(run.deduper[1].log) |-> run.deduper[1].log[k].row]
    ELSE Flat([k \in 1..Len(run.out) |-> run.out[k].rows])

\* the key column's value of the i-th row read, after the rules step
KeyAfterRules(i) == Written(cfg, cfg.key_col, DeliveredRows[i][cfg.key_col])

RowsAfterRules == [i \in 1..Len(DeliveredRows) |-> WrittenRow(cfg, DeliveredRows[i])]

\* the number of filled cells of a row among the filter's columns
FilledCells(row) ==
    Cardinality({ col \in Range(cfg.row_filter_subset) \cap DOMAIN row : row[col] # <<>> })

\* the row filter of the run drops the row
Dropped(row) == run.row_filter # <<>> /\ FilledCells(row) <= 1

OutputRows == Flat([k \in 1..Len(run.out) |-> run.out[k].rows])

\* C22: the row filter judges the rows as the rules of the batch left them,
\* and only the rows it keeps reach the dedup/write step: a dropped row is
\* in no record of the store and in no output row, it is counted in the
\* row-filter removed counter and not in the dedup removed counter.
C22_FilterBetweenRulesAndDedup ==
    LET kept == SelectSeq(RowsAfterRules, LAMBDA row : ~Dropped(row))
    IN  /\ HandedOn = kept
        /\ run.rf_removed = Len(RowsAfterRules) - Len(kept)
        /\ (DedupOn(cfg) /\ run.deduper # <<>>) =>
              LET log == run.deduper[1].log
              IN  /\ run.deduper[1].removed =
                        Cardinality({ k \in 1..Len(log) : log[k].hit /\ log[k].row.id # <<>> })
                  /\ phase = "done" =>
                        /\ Len(OutputRows) = Cardinality({ k \in 1..Len(log) : ~log[k].hit })
                        /\ run.dedup_removed = run.deduper[1].removed

\* a row with two filled cells in the file is dropped because the rules
\* emptied one of them, and the other row of the file is kept
C22_Witness ==
    /\ phase = "done"
    /\ run.rf_removed = 1
    /\ Len(HandedOn) = 1
    /\ \E i \in 1..Len(DeliveredRows) :
          /\ FilledCells(DeliveredRows[i]) > 1
          /\ Dropped(RowsAfterRules[i])

\* a cell as the minimum-length option asks for it: the rule chain of the
\* column if the profile has one, then the clearing pass if the column is
\* designated
Cleared(c, col, v) ==
    IF Designated(c, col)
    THEN min_length_clear(AfterChain(c, col, v), c.min_length_value)
    ELSE AfterChain(c, col, v)

\* C23: with minimum-length clearing enabled, every designated column of the
\* file has had the clearing pass, after its profile rules if it has any, in
\* every row that reaches the dedup/write step, whether or not the profile
\* has an entry for the column.
C23_MinLengthOnDesignatedColumns ==
    run.row_filter = <<>> =>
       \A i \in 1..Len(HandedOn) :
          \A col \in DOMAIN HandedOn[i] :
             HandedOn[i][col] = Cleared(cfg, col, DeliveredRows[i][col])

\* the statistics recorded for a column, zero before its first batch
StatsOf(col) ==
    IF col \in DOMAIN run.cols_stats THEN run.cols_stats[col]
    ELSE [changed |-> 0, cleared |-> 0, initial_empty |-> 0]

\* the rows read so far whose cell of the column satisfies P(before, after),
\* the trimmed cell before the rules and after them
CellsWhere(col, P(_, _)) ==
    Cardinality({ i \in 1..Len(DeliveredRows) :
                    P(Strip(DeliveredRows[i][col]),
                      Strip(Written(cfg, col, DeliveredRows[i][col]))) })

\* C24: for every profile column of the file the recorded statistics are the
\* sums over the batches read of: changed, the cells whose trimmed value
\* differs before and after the rules; cleared, the cells non-empty before
\* and empty after; initial_empty, the cells empty before.  A cell counts
\* once however many rules of the chain changed it.
C24_StatsFromSnapshots ==
    \A col \in { c \in Range(FileColumns) : HasEntry(cfg, c) } :
       /\ StatsOf(col).changed = CellsWhere(col, LAMBDA b, a : b # a)
       /\ StatsOf(col).cleared = CellsWhere(col, LAMBDA b, a : b # <<>> /\ a = <<>>)
       /\ StatsOf(col).initial_empty = CellsWhere(col, LAMBDA b, a : b = <<>>)

\* two batches: an e-mail changed by both rules and then cleared, counted
\* once as changed and once as cleared, and an e-mail of blanks only
C24_Witness ==
    /\ phase = "done"
    /\ cfg.chunksize = 1
    /\ Len(DeliveredRows) = 2
    /\ Designated(cfg, "email")
    /\ \E i \in 1..2 : DeliveredRows[i].email = <<" ", "A">>
    /\ StatsOf("email") = [changed |-> 1, cleared |-> 1, initial_empty |-> 1]

\* C27: a completed run with dedup accounts for every row: the rows of the
\* output, the dedup removed counter and the row-filter removed counter add
\* up to rows_total, and every row that passed the row filter is the
\* exemplar of one output row or is counted as one removed duplicate.
C27_DedupAccountsForEveryRow ==
    (phase = "done" /\ DedupOn(cfg)) =>
       /\ Len(OutputRows) + run.dedup_removed + run.rf_removed = run.rows_total
       /\ run.deduper # <<>> =>
             LET log == run.deduper[1].log
             IN  /\ Cardinality({ k \in 1..Len(log) : ~log[k].hit }) = Len(OutputRows)
                 /\ Cardinality({ k \in 1..Len(log) : log[k].hit }) = run.dedup_removed

\* what the claim compares between two runs: the output rows, the store
\* with its order and removed counter, the counters of the columns and of
\* the row filter
Result(r) ==
    [ rows          |-> Flat([k \in 1..Len(r.out) |-> r.out[k].rows]),
      store         |-> IF r.deduper = <<>> THEN {} ELSE r.deduper[1].agg,
      removed       |-> IF r.deduper = <<>> THEN 0 ELSE r.deduper[1].removed,
      dedup_removed |-> r.dedup_removed,
      rf_removed    |-> r.rf_removed,
      cols_stats    |-> r.cols_stats ]

\* the runs of the same file and arguments read in batches of n rows
RunsWithChunksize(n) ==
    LET c == [cfg EXCEPT !.chunksize = n]
    IN  RunToEnd(start(NewRun(c), c),
                 read_csv_in_chunks(Delimiter(c), Encoding(c), n), c, input)

\* C28: a completed run leaves the output rows, the store contents, export
\* order and removed counter of the engine, the column counters and the
\* row-filter counter that the run of the same rows leaves with any other
\* batch size.
C28_ResultIndependentOfBatches ==
    phase = "done" =>
       \A n \in 1..MaxChunkSize :
          \A f \in RunsWithChunksize(n) : Result(f) = Result(run)

\* two rows with one key read in two batches and merged, to be compared
\* with the run that reads them in one batch
C28_Witness ==
    /\ phase = "done"
    /\ cfg.chunksize = 1
    /\ Len(reader.delivered) = 2
    /\ DedupOn(cfg)
    /\ run.dedup_removed = 1
    /\ Len(OutputRows) = 1

\* the counters of the run do not go down in a step
C30_Step ==
    /\ run'.rows_total >= run.rows_total
    /\ run'.rf_removed >= run.rf_removed
    /\ \A col \in DOMAIN run.cols_stats :
          /\ col \in DOMAIN run'.cols_stats
          /\ run'.cols_stats[col].changed >= run.cols_stats[col].changed
          /\ run'.cols_stats[col].cleared >= run.cols_stats[col].cleared
          /\ run'.cols_stats[col].initial_empty >= run.cols_stats[col].initial_empty

C30_Bounds ==
    \A col \in DOMAIN run.cols_stats :
       /\ run.cols_stats[col].cleared <= run.cols_stats[col].changed
       /\ run.cols_stats[col].initial_empty + run.cols_stats[col].cleared <= run.rows_total

\* C30: from one batch boundary to the next rows_total, the row-filter
\* removed counter and every column's changed, cleared and initial_empty
\* never decrease, and at every boundary each column has cleared <= changed
\* and initial_empty + cleared <= rows_total.
C30_CountersMonotoneAndBounded ==
    /\ [][C30_Step]_vars
    /\ []C30_Bounds

\* after two batches: one e-mail cleared, one empty from the start, both
\* rows dropped by the row filter
C30_Witness ==
    /\ phase = "loop"
    /\ cfg.chunksize = 1
    /\ run.rows_total = 2
    /\ run.rf_removed = 2
    /\ "email" \in DOMAIN run.cols_stats
    /\ run.cols_stats["email"] = [changed |-> 1, cleared |-> 1, initial_empty |-> 1]

====
